---- MODULE Spec2Model ----
(***************************************************************************)
(* Model of the task-manager service core: the Service (in-memory task    *)
(* collection + nextID behind an RWMutex) on top of the TaskStore (a JSON *)
(* file behind its own RWMutex), with context cancellation threaded        *)
(* through every call.  Each request goroutine is a process that walks    *)
(* through the checkpoints of the Go code.                                 *)
(***************************************************************************)
EXTENDS Integers, Sequences, FiniteSets, TLC

\* ------------------------------------------------------------------ bounds
\* Creates are admitted only while the ID they would get is <= MaxID.
MaxID == 2

\* ------------------------------------------------------------ input domains
Procs == {"r1", "r2"}
Titles == {"a", "b"}
InPriorities == {"low", "high"}
\* IDs a request may name: every ID that can exist, plus one that never does.
ReqIDs == 1..(MaxID + 1)
\* Largest integer that can appear in a file of this model.
MaxInt == MaxID + 4

None == "none"
\* ctx.Err() values and the I/O error of os.WriteFile.
ErrNil == "nil"
ErrCanceled == "Canceled"
ErrDeadline == "DeadlineExceeded"
ErrIO == "io"
ErrParse == "parse"
CtxErrs == {ErrCanceled, ErrDeadline}

\* ------------------------------------------------------------------- Task
Task(id, title, done, priority) ==
    [id |-> id, title |-> title, done |-> done, priority |-> priority]

\* Task{} : Go's zero value.
ZeroTask == Task(0, "", FALSE, "")

\* A *string / *bool field of UpdateTaskRequest: nil, or a pointer to v.
NilStr == [nil |-> TRUE, v |-> ""]
NilBool == [nil |-> TRUE, v |-> FALSE]
Ptr(v) == [nil |-> FALSE, v |-> v]

UpdateTaskRequest(title, done, priority) ==
    [Title |-> title, Done |-> done, Priority |-> priority]

ZeroRequest == UpdateTaskRequest(NilStr, NilBool, NilStr)

IDsOf(ts) == {ts[i].id : i \in 1..Len(ts)}

\* ---------------------------------------------------------- JSON encoding
\* The file holds text.  A number is written in decimal, a bool as
\* true/false, a string as its characters; an object keeps the struct's
\* field order (id, title, done, priority).
FormatBool(b) == IF b THEN "true" ELSE "false"

ParseBool(s) == s = "true"

FormatInt(n) == ToString(n)

ParseInt(s) == CHOOSE n \in 0..MaxInt : ToString(n) = s

EncodeTask(t) ==
    [id |-> FormatInt(t.id), title |-> t.title,
     done |-> FormatBool(t.done), priority |-> t.priority]

\* Faulty variant: the priority key is not read back.
DecodeTaskDropsPriority(o) ==
    Task(ParseInt(o.id), o.title, ParseBool(o.done), "")

DecodeTask(o) ==
    Task(ParseInt(o.id), o.title, ParseBool(o.done), o.priority)

\* File contents: no file, a blank file, a JSON array, or unparsable bytes.
FileAbsent == [kind |-> "absent", objs |-> <<>>]
FileBlank == [kind |-> "blank", objs |-> <<>>]
FileMalformed == [kind |-> "malformed", objs |-> <<>>]

MarshalIndent(ts) ==
    [kind |-> "json", objs |-> [i \in 1..Len(ts) |-> EncodeTask(ts[i])]]

Unmarshal(f) == [i \in 1..Len(f.objs) |-> DecodeTask(f.objs[i])]

\* Faulty variant: no blank-file case, json.Unmarshal fails on empty input.
LoadTasksBlankFails(f) ==
    CASE f.kind = "absent" -> [tasks |-> <<>>, err |-> ErrNil]
      [] f.kind = "blank" -> [tasks |-> <<>>, err |-> ErrParse]
      [] f.kind = "malformed" -> [tasks |-> <<>>, err |-> ErrParse]
      [] OTHER -> [tasks |-> Unmarshal(f), err |-> ErrNil]

\* TaskStore.LoadTasks with a live context: (tasks, err).
LoadTasks(f) ==
    CASE f.kind = "absent" -> [tasks |-> <<>>, err |-> ErrNil]
      [] f.kind = "blank" -> [tasks |-> <<>>, err |-> ErrNil]
      [] f.kind = "malformed" -> [tasks |-> <<>>, err |-> ErrParse]
      [] OTHER -> [tasks |-> Unmarshal(f), err |-> ErrNil]

\* What a failed os.WriteFile can leave behind: the old content (the open
\* failed), an empty file (truncated, nothing written) or a torn prefix.
FailedWriteOutcomes(old) == {old, FileBlank, FileMalformed}

\* ------------------------------------------------------- Service helpers
\* Faulty variant: the count of the records stands in for the largest ID.
calcNextIDLen(ts) == Len(ts) + 1

\* Faulty variant: the largest ID itself, without the + 1.
calcNextIDMax(ts) ==
    LET ids == IDsOf(ts) \cup {0}
    IN  CHOOSE m \in ids : \A x \in ids : x <= m

\* maxID := 0; for each task, if t.ID > maxID then maxID = t.ID; maxID + 1
calcNextID(ts) ==
    LET ids == IDsOf(ts) \cup {0}
    IN  (CHOOSE m \in ids : \A x \in ids : x <= m) + 1

\* Faulty variant: a miss falls through to the first entry.
FindIdxOrFirst(ts, id) ==
    IF \E i \in 1..Len(ts) : ts[i].id = id
    THEN CHOOSE i \in 1..Len(ts) :
            ts[i].id = id /\ \A j \in 1..(i - 1) : ts[j].id # id
    ELSE IF Len(ts) > 0 THEN 1 ELSE 0

\* The lookup loop of UpdateTask / DeleteTask / GetTask: the first index
\* whose ID matches, 0 when there is none (Go's idx == -1).
FindIdx(ts, id) ==
    IF \E i \in 1..Len(ts) : ts[i].id = id
    THEN CHOOSE i \in 1..Len(ts) :
            ts[i].id = id /\ \A j \in 1..(i - 1) : ts[j].id # id
    ELSE 0

\* created := Task{ID: s.nextID, Title: incoming.Title, Done: incoming.Done}
NewCreated(nid, incoming) ==
    Task(nid, incoming.title, incoming.done, "")

\* Faulty variant: absent fields collapse to their zero value.
MergeZeroed(existing, req) ==
    [id |-> existing.id, title |-> req.Title.v, done |-> req.Done.v,
     priority |-> req.Priority.v]

\* Faulty variant: the updated record is built afresh and loses its ID.
MergeLosesID(existing, req) ==
    [id |-> 0,
     title |-> IF req.Title.nil THEN existing.title ELSE req.Title.v,
     done |-> IF req.Done.nil THEN existing.done ELSE req.Done.v,
     priority |-> IF req.Priority.nil THEN existing.priority ELSE req.Priority.v]

\* The pointer-guarded field copies of UpdateTask.
Merge(existing, req) ==
    [id |-> existing.id,
     title |-> IF req.Title.nil THEN existing.title ELSE req.Title.v,
     done |-> IF req.Done.nil THEN existing.done ELSE req.Done.v,
     priority |-> IF req.Priority.nil THEN existing.priority ELSE req.Priority.v]

\* Faulty variant: the updated record is appended and the old entry dropped.
ReplaceAtMovesToEnd(ts, idx, t) ==
    SubSeq(ts, 1, idx - 1) \o SubSeq(ts, idx + 1, Len(ts)) \o <<t>>

ReplaceAt(ts, idx, t) == [ts EXCEPT ![idx] = t]

\* Faulty variant: s.tasks[:idx] + s.tasks[idx:] keeps every entry.
RemoveAtKeepsAll(ts, idx) == SubSeq(ts, 1, idx - 1) \o SubSeq(ts, idx, Len(ts))

\* Faulty variant: off by one, the entry after idx is dropped instead.
RemoveAtNext(ts, idx) == SubSeq(ts, 1, idx) \o SubSeq(ts, idx + 2, Len(ts))

\* Faulty variant: the last entry is moved into the hole (swap-remove).
RemoveAtSwapLast(ts, idx) ==
    IF idx = Len(ts)
    THEN SubSeq(ts, 1, Len(ts) - 1)
    ELSE SubSeq([ts EXCEPT ![idx] = ts[Len(ts)]], 1, Len(ts) - 1)

RemoveAt(ts, idx) == SubSeq(ts, 1, idx - 1) \o SubSeq(ts, idx + 1, Len(ts))

\* Faulty variant: the error of SaveTasks is ignored.
SaveSucceededAlways(err) == TRUE

\* `if err := s.store.SaveTasks(...); err != nil { return }` : the commit
\* is reached only with a nil error.
SaveSucceeded(err) == err = ErrNil

\* Faulty variant: the checkpoint is missing.
CtxNeverCancelled(c) == FALSE

\* Faulty variant: only context.Canceled stops the call, a passed deadline
\* does not.
CtxCancelledNotDeadline(c) == c = ErrCanceled

\* `if err := ctx.Err(); err != nil` : the checkpoint test.
CtxCancelled(c) == c # ErrNil

\* Faulty variant: the counter is not advanced.
IncIDNone(n) == n

\* Faulty variant: the counter is advanced twice.
IncIDTwice(n) == n + 2

\* s.nextID++
IncID(n) == n + 1

\* ------------------------------------------------------------------ state
VARIABLES
    file,        \* content of the store's backing file
    storeMu,     \* TaskStore.mu : [w : holder or None, r : set of readers]
    svcUp,       \* NewService returned a service (FALSE: it returned an error)
    tasks,       \* Service.tasks
    nextID,      \* Service.nextID
    svcMu,       \* Service.mu
    pc,          \* where each request goroutine stands
    op,          \* the Service method it runs
    arg,         \* its arguments: [id, incoming, req, delay, cred]
    ctx,         \* ctx.Err() of its context
    candidate,   \* its local candidate slice
    local,       \* its local created / updated Task
    data,        \* SaveTasks' local data (the marshalled candidate)
    saveErr,     \* the error SaveTasks returned to it
    result,      \* what the method returned: [task, ok, err, list]
    storeCalls,  \* history: TaskStore methods it has entered in this call
    assignedIDs, \* history: IDs CreateTask has ever returned
    retiredIDs,  \* history: assigned IDs that DeleteTask later removed
    createdIDs,  \* history: IDs CreateTask returned in this Service instance
    deletedNoCreate, \* history: IDs deleted with no CreateTask since
    maxAtLoad,   \* history: the largest ID NewService loaded (0: none)
    status,      \* history: what each request's handler wrote in response
    aliases      \* goroutines holding a returned list that shares the
                 \* backing array of s.tasks

svcVars == <<svcUp, tasks, nextID, aliases>>
histVars == <<assignedIDs, retiredIDs, createdIDs, deletedNoCreate, maxAtLoad,
              status>>
saveVars == <<candidate, local, data, saveErr>>
vars == <<file, storeMu, svcUp, tasks, nextID, svcMu, pc, op, arg, ctx,
          candidate, local, data, saveErr, result, storeCalls,
          assignedIDs, retiredIDs, createdIDs, deletedNoCreate, maxAtLoad,
          status, aliases>>

MuFree == [w |-> None, r |-> {}]

\* No handler has finished with the request yet.
Pending == "pending"

\* What r.BasicAuth() returns: (username, password, ok).
BasicAuth(name, pass) == [ok |-> TRUE, name |-> name, pass |-> pass]

\* A request without an Authorization header.
NoCreds == [ok |-> FALSE, name |-> "", pass |-> ""]

NoArg == [id |-> 0, incoming |-> ZeroTask, req |-> ZeroRequest, delay |-> 0,
          cred |-> NoCreds]
NoResult == [task |-> ZeroTask, ok |-> FALSE, err |-> ErrNil, list |-> <<>>]

\* Faulty variant: the error is replaced by one of the method's own.
RetErrOpaque(e) == [task |-> ZeroTask, ok |-> FALSE, err |-> ErrIO, list |-> <<>>]

\* Return values of the Service methods.
RetErr(e) == [task |-> ZeroTask, ok |-> FALSE, err |-> e, list |-> <<>>]
RetNotFound == [task |-> ZeroTask, ok |-> FALSE, err |-> ErrNil, list |-> <<>>]
RetTask(t) == [task |-> t, ok |-> TRUE, err |-> ErrNil, list |-> <<>>]
RetList(ts) == [task |-> ZeroTask, ok |-> TRUE, err |-> ErrNil, list |-> ts]
RetDeleted == [task |-> ZeroTask, ok |-> TRUE, err |-> ErrNil, list |-> <<>>]

\* ------------------------------------------------------------------- Init
\* A record as an earlier run of the program may have left it in the file.
Seed(id) == Task(id, "a", FALSE, "")

\* Collections an earlier run can have persisted (IDs strictly increasing,
\* possibly with gaps left by deletions).
SeedCollections ==
    { <<>>, <<Seed(1)>>, <<Seed(2)>>, <<Seed(1), Seed(2)>> }

InitFiles ==
    {FileAbsent, FileBlank, FileMalformed}
        \cup {MarshalIndent(c) : c \in SeedCollections}

\* NewService(ctx, store) with a live context on file content f.
NewServiceTasks(f) == LoadTasks(f).tasks
NewServiceUp(f) == LoadTasks(f).err = ErrNil
NewServiceNextID(f) == calcNextID(LoadTasks(f).tasks)

\* The largest ID of a collection, 0 for the empty one.
MaxIDOf(ts) ==
    IF ts = <<>> THEN 0
    ELSE CHOOSE m \in IDsOf(ts) : \A x \in IDsOf(ts) : x <= m

Init ==
    /\ file \in InitFiles
    /\ storeMu = MuFree
    /\ svcUp = NewServiceUp(file)
    /\ tasks = NewServiceTasks(file)
    /\ nextID = NewServiceNextID(file)
    /\ svcMu = MuFree
    /\ pc = [p \in Procs |-> "idle"]
    /\ op = [p \in Procs |-> None]
    /\ arg = [p \in Procs |-> NoArg]
    /\ ctx = [p \in Procs |-> ErrNil]
    /\ candidate = [p \in Procs |-> <<>>]
    /\ local = [p \in Procs |-> ZeroTask]
    /\ data = [p \in Procs |-> FileAbsent]
    /\ saveErr = [p \in Procs |-> ErrNil]
    /\ result = [p \in Procs |-> NoResult]
    /\ storeCalls = [p \in Procs |-> 0]
    /\ assignedIDs = {}
    /\ retiredIDs = {}
    /\ createdIDs = {}
    /\ deletedNoCreate = {}
    /\ maxAtLoad = MaxIDOf(NewServiceTasks(file))
    /\ aliases = {}
    /\ status = [p \in Procs |-> Pending]

\* ------------------------------------------------------------ request inputs
CreateInputs ==
    {Task(0, "a", FALSE, "low"), Task(0, "b", TRUE, "high")}

\* Partial updates: nothing present, done alone, title and priority together.
UpdateInputs ==
    {ZeroRequest,
     UpdateTaskRequest(NilStr, Ptr(TRUE), NilStr),
     UpdateTaskRequest(Ptr("b"), NilBool, Ptr("high"))}

\* Every present/absent combination of the three updatable fields.
AllUpdateInputs ==
    {UpdateTaskRequest(t, d, pr) :
        t \in {NilStr, Ptr("b")}, d \in {NilBool, Ptr(TRUE), Ptr(FALSE)},
        pr \in {NilStr, Ptr("high"), Ptr("low")}}

\* r.Use(appMiddleware.RequestTimeoutMiddleware(2 * time.Second)), in seconds.
RequestTimeout == 2

\* ?delay= values, in seconds: none, one the deadline outlasts, one that
\* outlasts the deadline.
Delays == {0, 1, 3}

\* A timer of d seconds started within the request can fire while the
\* request's deadline has not passed.
TimerBeforeDeadline(d) == d < RequestTimeout

InFlightCreates == Cardinality({q \in Procs : pc[q] # "idle" /\ op[q] = "create"})

\* ------------------------------------------------------------------ calls
\* A handler calls a Service method with the request's context, which may
\* already be cancelled.
Invoke(p, o, a, c) ==
    /\ svcUp
    /\ pc[p] = "idle"
    /\ pc' = [pc EXCEPT ![p] = "entry"]
    /\ op' = [op EXCEPT ![p] = o]
    /\ arg' = [arg EXCEPT ![p] = a]
    /\ ctx' = [ctx EXCEPT ![p] = c]
    /\ UNCHANGED <<file, storeMu, svcVars, svcMu, saveVars, result,
                   storeCalls, histVars>>

CallList(p, errs) ==
    \E d \in Delays, c \in {ErrNil} \cup errs :
        Invoke(p, "list", [NoArg EXCEPT !.delay = d], c)

CallGet(p, errs) ==
    \E id \in ReqIDs, c \in {ErrNil} \cup errs :
        Invoke(p, "get", [NoArg EXCEPT !.id = id], c)

CallCreate(p, ins, errs) ==
    /\ nextID + InFlightCreates <= MaxID
    /\ \E t \in ins, c \in {ErrNil} \cup errs :
        Invoke(p, "create", [NoArg EXCEPT !.incoming = t], c)

CallUpdate(p, reqs, errs) ==
    \E id \in ReqIDs, r \in reqs, c \in {ErrNil} \cup errs :
        Invoke(p, "update", [NoArg EXCEPT !.id = id, !.req = r], c)

CallDelete(p, errs) ==
    \E id \in ReqIDs, c \in {ErrNil} \cup errs :
        Invoke(p, "delete", [NoArg EXCEPT !.id = id], c)

\* The request's context is cancelled (client gone, shutdown) or its
\* deadline passes while the call is in progress.
Cancel(p, errs) ==
    /\ pc[p] \notin {"idle", "done"}
    /\ ctx[p] = ErrNil
    /\ \E c \in errs : ctx' = [ctx EXCEPT ![p] = c]
    /\ UNCHANGED <<file, storeMu, svcVars, svcMu, pc, op, arg, saveVars,
                   result, storeCalls, histVars>>

\* The method returns r to its caller.
Finish(p, r) ==
    /\ pc' = [pc EXCEPT ![p] = "done"]
    /\ result' = [result EXCEPT ![p] = r]

\* The handler has consumed the result; the goroutine ends.
Return(p) ==
    /\ pc[p] = "done"
    /\ pc' = [pc EXCEPT ![p] = "idle"]
    /\ op' = [op EXCEPT ![p] = None]
    /\ arg' = [arg EXCEPT ![p] = NoArg]
    /\ ctx' = [ctx EXCEPT ![p] = ErrNil]
    /\ candidate' = [candidate EXCEPT ![p] = <<>>]
    /\ local' = [local EXCEPT ![p] = ZeroTask]
    /\ data' = [data EXCEPT ![p] = FileAbsent]
    /\ saveErr' = [saveErr EXCEPT ![p] = ErrNil]
    /\ result' = [result EXCEPT ![p] = NoResult]
    /\ storeCalls' = [storeCalls EXCEPT ![p] = 0]
    /\ aliases' = aliases \ {p}
    /\ status' = [status EXCEPT ![p] = Pending]
    /\ UNCHANGED <<file, storeMu, svcUp, tasks, nextID, svcMu, assignedIDs,
                   retiredIDs, createdIDs, deletedNoCreate, maxAtLoad>>

\* ------------------------------------------------- first checkpoint (entry)
\* `if err := ctx.Err(); err != nil { return ..., err }` opening every method.
AfterEntry(p) ==
    CASE op[p] = "list" -> IF arg[p].delay > 0 THEN "slowEntry" ELSE "check2"
      [] op[p] = "get" -> "rlock"
      [] OTHER -> "lock"

EntryCheck(p) ==
    /\ pc[p] = "entry"
    /\ IF CtxCancelled(ctx[p])
       THEN Finish(p, RetErr(ctx[p]))
       ELSE /\ pc' = [pc EXCEPT ![p] = AfterEntry(p)]
            /\ UNCHANGED result
    /\ UNCHANGED <<file, storeMu, svcVars, svcMu, op, arg, ctx, saveVars,
                   storeCalls, histVars>>

\* Faulty variant: the shared lock is taken before the delay, not after it.
SlowEntryUnderRLock(p) ==
    /\ pc[p] = "slowEntry"
    /\ svcMu.w = None
    /\ svcMu' = [svcMu EXCEPT !.r = @ \cup {p}]
    /\ storeCalls' = [storeCalls EXCEPT ![p] = @ + 1]
    /\ IF CtxCancelled(ctx[p])
       THEN Finish(p, RetErr(ctx[p]))
       ELSE /\ pc' = [pc EXCEPT ![p] = "sleep"]
            /\ UNCHANGED result
    /\ UNCHANGED <<file, storeMu, svcVars, op, arg, ctx, saveVars, histVars>>

\* ------------------------------------------------------------- ListTasks
\* s.store.SimulateSlowIO(ctx, delay): its own entry check.
SlowEntry(p) ==
    /\ pc[p] = "slowEntry"
    /\ storeCalls' = [storeCalls EXCEPT ![p] = @ + 1]
    /\ IF CtxCancelled(ctx[p])
       THEN Finish(p, RetErr(ctx[p]))
       ELSE /\ pc' = [pc EXCEPT ![p] = "sleep"]
            /\ UNCHANGED result
    /\ UNCHANGED <<file, storeMu, svcVars, svcMu, op, arg, ctx, saveVars,
                   histVars>>

\* Faulty variant: the wait ends without reporting the context's error.
SleepReturnsNil(p) ==
    /\ pc[p] = "sleep"
    /\ TimerBeforeDeadline(arg[p].delay) \/ CtxCancelled(ctx[p])
    /\ pc' = [pc EXCEPT ![p] = "check2"]
    /\ UNCHANGED <<file, storeMu, svcVars, svcMu, op, arg, ctx, saveVars,
                   storeCalls, histVars, result>>

\* select { case <-timer.C: return ctx.Err(); case <-ctx.Done(): return ctx.Err() }
\* The select returns once the timer has fired or the context is done.
Sleep(p) ==
    /\ pc[p] = "sleep"
    /\ TimerBeforeDeadline(arg[p].delay) \/ CtxCancelled(ctx[p])
    /\ IF CtxCancelled(ctx[p])
       THEN Finish(p, RetErr(ctx[p]))
       ELSE /\ pc' = [pc EXCEPT ![p] = "check2"]
            /\ UNCHANGED result
    /\ UNCHANGED <<file, storeMu, svcVars, svcMu, op, arg, ctx, saveVars,
                   storeCalls, histVars>>

\* The second ctx.Err() check of ListTasks, before the read.
Check2(p) ==
    /\ pc[p] = "check2"
    /\ IF CtxCancelled(ctx[p])
       THEN Finish(p, RetErr(ctx[p]))
       ELSE /\ pc' = [pc EXCEPT ![p] = "rlock"]
            /\ UNCHANGED result
    /\ UNCHANGED <<file, storeMu, svcVars, svcMu, op, arg, ctx, saveVars,
                   storeCalls, histVars>>

\* Faulty variant: the read does not wait for the writer to unlock.
RLockNoWait(p) ==
    /\ pc[p] = "rlock"
    /\ svcMu' = [svcMu EXCEPT !.r = @ \cup {p}]
    /\ pc' = [pc EXCEPT ![p] = "read"]
    /\ UNCHANGED <<file, storeMu, svcVars, op, arg, ctx, saveVars, result,
                   storeCalls, histVars>>

\* s.mu.RLock()
RLock(p) ==
    /\ pc[p] = "rlock"
    /\ svcMu.w = None
    /\ svcMu' = [svcMu EXCEPT !.r = @ \cup {p}]
    /\ pc' = [pc EXCEPT ![p] = "read"]
    /\ UNCHANGED <<file, storeMu, svcVars, op, arg, ctx, saveVars, result,
                   storeCalls, histVars>>

\* Faulty variant: `return s.tasks, nil`, the slice itself and no copy.
ListReadNoCopy(p) ==
    /\ pc[p] = "read"
    /\ op[p] = "list"
    /\ svcMu' = [svcMu EXCEPT !.r = @ \ {p}]
    /\ Finish(p, RetList(tasks))
    /\ aliases' = aliases \cup {p}
    /\ UNCHANGED <<file, storeMu, svcUp, tasks, nextID, op, arg, ctx,
                   saveVars, storeCalls, histVars>>

\* out := make(...); copy(out, s.tasks); return out, nil   (RUnlock deferred)
ListRead(p) ==
    /\ pc[p] = "read"
    /\ op[p] = "list"
    /\ svcMu' = [svcMu EXCEPT !.r = @ \ {p}]
    /\ Finish(p, RetList(tasks))
    /\ aliases' = aliases \ {p}
    /\ UNCHANGED <<file, storeMu, svcUp, tasks, nextID, op, arg, ctx,
                   saveVars, storeCalls, histVars>>

\* Faulty variant: the ID is used as a position in the collection.
GetLookupByPosition(ts, id) ==
    IF id \in 1..Len(ts) THEN RetTask(ts[id]) ELSE RetNotFound

\* ---------------------------------------------------------------- GetTask
GetLookup(ts, id) ==
    IF FindIdx(ts, id) = 0 THEN RetNotFound ELSE RetTask(ts[FindIdx(ts, id)])

GetRead(p) ==
    /\ pc[p] = "read"
    /\ op[p] = "get"
    /\ svcMu' = [svcMu EXCEPT !.r = @ \ {p}]
    /\ Finish(p, GetLookup(tasks, arg[p].id))
    /\ UNCHANGED <<file, storeMu, svcVars, op, arg, ctx, saveVars,
                   storeCalls, histVars>>

\* ----------------------------------------- mutations: lock and candidate
\* CreateTask: s.mu.Lock(); created := Task{...}; candidate := tasks + created
LockCreate(p) ==
    /\ pc[p] = "lock"
    /\ op[p] = "create"
    /\ svcMu = MuFree
    /\ svcMu' = [w |-> p, r |-> {}]
    /\ local' = [local EXCEPT ![p] = NewCreated(nextID, arg[p].incoming)]
    /\ candidate' = [candidate EXCEPT
                       ![p] = Append(tasks, NewCreated(nextID, arg[p].incoming))]
    /\ pc' = [pc EXCEPT ![p] = "saveEntry"]
    /\ deletedNoCreate' = {}
    /\ UNCHANGED <<file, storeMu, svcVars, op, arg, ctx, data, saveErr,
                   result, storeCalls, assignedIDs, retiredIDs, createdIDs,
                   maxAtLoad, status>>

\* Faulty variant: the record returned is the entry as it was before the
\* request was merged into it.
LockUpdateReturnsOld(p) ==
    /\ pc[p] = "lock"
    /\ op[p] = "update"
    /\ svcMu = MuFree
    /\ LET idx == FindIdx(tasks, arg[p].id)
       IN  IF idx = 0
           THEN /\ Finish(p, RetNotFound)
                /\ UNCHANGED <<svcMu, local, candidate>>
           ELSE /\ svcMu' = [w |-> p, r |-> {}]
                /\ local' = [local EXCEPT ![p] = tasks[idx]]
                /\ candidate' = [candidate EXCEPT
                     ![p] = ReplaceAt(tasks, idx, Merge(tasks[idx], arg[p].req))]
                /\ pc' = [pc EXCEPT ![p] = "saveEntry"]
                /\ UNCHANGED result
    /\ UNCHANGED <<file, storeMu, svcVars, op, arg, ctx, data, saveErr,
                   storeCalls, histVars>>

\* UpdateTask: s.mu.Lock(); lookup; not found -> return; else merge and
\* build the candidate with that one entry replaced.
LockUpdate(p) ==
    /\ pc[p] = "lock"
    /\ op[p] = "update"
    /\ svcMu = MuFree
    /\ LET idx == FindIdx(tasks, arg[p].id)
       IN  IF idx = 0
           THEN /\ Finish(p, RetNotFound)
                /\ UNCHANGED <<svcMu, local, candidate>>
           ELSE /\ svcMu' = [w |-> p, r |-> {}]
                /\ local' = [local EXCEPT ![p] = Merge(tasks[idx], arg[p].req)]
                /\ candidate' = [candidate EXCEPT
                     ![p] = ReplaceAt(tasks, idx, Merge(tasks[idx], arg[p].req))]
                /\ pc' = [pc EXCEPT ![p] = "saveEntry"]
                /\ UNCHANGED result
    /\ UNCHANGED <<file, storeMu, svcVars, op, arg, ctx, data, saveErr,
                   storeCalls, histVars>>

\* DeleteTask: s.mu.Lock(); lookup; not found -> return; else build the
\* candidate without that entry.
LockDelete(p) ==
    /\ pc[p] = "lock"
    /\ op[p] = "delete"
    /\ svcMu = MuFree
    /\ LET idx == FindIdx(tasks, arg[p].id)
       IN  IF idx = 0
           THEN /\ Finish(p, RetNotFound)
                /\ UNCHANGED <<svcMu, candidate>>
           ELSE /\ svcMu' = [w |-> p, r |-> {}]
                /\ candidate' = [candidate EXCEPT ![p] = RemoveAt(tasks, idx)]
                /\ pc' = [pc EXCEPT ![p] = "saveEntry"]
                /\ UNCHANGED result
    /\ UNCHANGED <<file, storeMu, svcVars, op, arg, ctx, local, data,
                   saveErr, storeCalls, histVars>>

\* --------------------------------------------------- TaskStore.SaveTasks
\* SaveTasks returns e to the Service method (its deferred Unlock has run).
SaveReturns(p, e) ==
    /\ saveErr' = [saveErr EXCEPT ![p] = e]
    /\ pc' = [pc EXCEPT ![p] = "saved"]

\* Faulty variant: SaveTasks starts without looking at its context.
SaveEntryNoCheck(p) ==
    /\ pc[p] = "saveEntry"
    /\ storeCalls' = [storeCalls EXCEPT ![p] = @ + 1]
    /\ pc' = [pc EXCEPT ![p] = "saveLock"]
    /\ UNCHANGED <<file, storeMu, svcVars, svcMu, op, arg, ctx, candidate,
                   local, data, result, histVars, saveErr>>

\* Checkpoint 1: on entry.
SaveEntry(p) ==
    /\ pc[p] = "saveEntry"
    /\ storeCalls' = [storeCalls EXCEPT ![p] = @ + 1]
    /\ IF CtxCancelled(ctx[p])
       THEN SaveReturns(p, ctx[p])
       ELSE /\ pc' = [pc EXCEPT ![p] = "saveLock"]
            /\ UNCHANGED saveErr
    /\ UNCHANGED <<file, storeMu, svcVars, svcMu, op, arg, ctx, candidate,
                   local, data, result, histVars>>

\* ts.mu.Lock(), then checkpoint 2.
SaveLock(p) ==
    /\ pc[p] = "saveLock"
    /\ storeMu = MuFree
    /\ IF CtxCancelled(ctx[p])
       THEN /\ SaveReturns(p, ctx[p])
            /\ UNCHANGED storeMu
       ELSE /\ storeMu' = [w |-> p, r |-> {}]
            /\ pc' = [pc EXCEPT ![p] = "saveMarshal"]
            /\ UNCHANGED saveErr
    /\ UNCHANGED <<file, svcVars, svcMu, op, arg, ctx, candidate, local,
                   data, result, storeCalls, histVars>>

\* Faulty variant: the collection marshalled is s.tasks, not the candidate
\* handed to SaveTasks.
SaveMarshalCurrent(p) ==
    /\ pc[p] = "saveMarshal"
    /\ data' = [data EXCEPT ![p] = MarshalIndent(tasks)]
    /\ IF CtxCancelled(ctx[p])
       THEN /\ SaveReturns(p, ctx[p])
            /\ storeMu' = MuFree
       ELSE /\ pc' = [pc EXCEPT ![p] = "saveWrite"]
            /\ UNCHANGED <<saveErr, storeMu>>
    /\ UNCHANGED <<file, svcVars, svcMu, op, arg, ctx, candidate, local,
                   result, storeCalls, histVars>>

\* Faulty variant: the return at checkpoint 3 leaves the storage lock held
\* (an explicit Unlock on the normal path only, no defer).
SaveMarshalNoUnlock(p) ==
    /\ pc[p] = "saveMarshal"
    /\ data' = [data EXCEPT ![p] = MarshalIndent(candidate[p])]
    /\ IF CtxCancelled(ctx[p])
       THEN /\ SaveReturns(p, ctx[p])
            /\ UNCHANGED storeMu
       ELSE /\ pc' = [pc EXCEPT ![p] = "saveWrite"]
            /\ UNCHANGED <<saveErr, storeMu>>
    /\ UNCHANGED <<file, svcVars, svcMu, op, arg, ctx, candidate, local,
                   result, storeCalls, histVars>>

\* data := json.MarshalIndent(tasks), then checkpoint 3.
SaveMarshal(p) ==
    /\ pc[p] = "saveMarshal"
    /\ data' = [data EXCEPT ![p] = MarshalIndent(candidate[p])]
    /\ IF CtxCancelled(ctx[p])
       THEN /\ SaveReturns(p, ctx[p])
            /\ storeMu' = MuFree
       ELSE /\ pc' = [pc EXCEPT ![p] = "saveWrite"]
            /\ UNCHANGED <<saveErr, storeMu>>
    /\ UNCHANGED <<file, svcVars, svcMu, op, arg, ctx, candidate, local,
                   result, storeCalls, histVars>>

\* Faulty variant: a further checkpoint after the write reports a
\* cancellation although the file has been written.
SaveWriteOKThenCheck(p) ==
    /\ pc[p] = "saveWrite"
    /\ file' = data[p]
    /\ storeMu' = MuFree
    /\ SaveReturns(p, ctx[p])
    /\ UNCHANGED <<svcVars, svcMu, op, arg, ctx, candidate, local, data,
                   result, storeCalls, histVars>>

\* os.WriteFile succeeds.
SaveWriteOK(p) ==
    /\ pc[p] = "saveWrite"
    /\ file' = data[p]
    /\ storeMu' = MuFree
    /\ SaveReturns(p, ErrNil)
    /\ UNCHANGED <<svcVars, svcMu, op, arg, ctx, candidate, local, data,
                   result, storeCalls, histVars>>

\* os.WriteFile fails.
SaveWriteFail(p) ==
    /\ pc[p] = "saveWrite"
    /\ file' \in FailedWriteOutcomes(file)
    /\ storeMu' = MuFree
    /\ SaveReturns(p, ErrIO)
    /\ UNCHANGED <<svcVars, svcMu, op, arg, ctx, candidate, local, data,
                   result, storeCalls, histVars>>

\* os.WriteFile fails before it has touched the file (the open failed).
SaveWriteFailClean(p) ==
    /\ pc[p] = "saveWrite"
    /\ storeMu' = MuFree
    /\ SaveReturns(p, ErrIO)
    /\ UNCHANGED <<file, svcVars, svcMu, op, arg, ctx, candidate, local, data,
                   result, storeCalls, histVars>>

\* --------------------------------------------- mutations: commit or fail
\* After SaveTasks: on error return it; otherwise s.tasks = candidate
\* (and s.nextID++ for CreateTask) and return.  s.mu.Unlock() is deferred.
AfterSave(p) ==
    /\ pc[p] = "saved"
    /\ svcMu' = MuFree
    /\ IF ~SaveSucceeded(saveErr[p])
       THEN /\ Finish(p, RetErr(saveErr[p]))
            /\ UNCHANGED <<tasks, nextID, histVars, aliases>>
       ELSE /\ tasks' = candidate[p]
            /\ aliases' = {}
            /\ CASE op[p] = "create" ->
                      /\ nextID' = IncID(nextID)
                      /\ Finish(p, RetTask(local[p]))
                      /\ assignedIDs' = assignedIDs \cup {local[p].id}
                      /\ createdIDs' = createdIDs \cup {local[p].id}
                      /\ UNCHANGED <<retiredIDs, deletedNoCreate, maxAtLoad,
                                     status>>
                 [] op[p] = "update" ->
                      /\ Finish(p, RetTask(local[p]))
                      /\ UNCHANGED <<nextID, histVars>>
                 [] OTHER ->
                      /\ Finish(p, RetDeleted)
                      /\ retiredIDs' = retiredIDs \cup ({arg[p].id} \cap assignedIDs)
                      /\ deletedNoCreate' = deletedNoCreate \cup {arg[p].id}
                      /\ UNCHANGED <<nextID, assignedIDs, createdIDs,
                                     maxAtLoad, status>>
    /\ candidate' = [candidate EXCEPT ![p] = <<>>]
    /\ local' = [local EXCEPT ![p] = ZeroTask]
    /\ data' = [data EXCEPT ![p] = FileAbsent]
    /\ saveErr' = [saveErr EXCEPT ![p] = ErrNil]
    /\ UNCHANGED <<file, storeMu, svcUp, op, arg, ctx, storeCalls>>

\* ------------------------------------------------------------- NewService
\* The process is stopped with no request in flight and started again:
\* NewService loads the file and recomputes nextID.
Restart ==
    /\ \A p \in Procs : pc[p] = "idle"
    /\ storeMu = MuFree
    /\ svcUp' = NewServiceUp(file)
    /\ tasks' = NewServiceTasks(file)
    /\ nextID' = NewServiceNextID(file)
    /\ createdIDs' = {}
    /\ maxAtLoad' = MaxIDOf(NewServiceTasks(file))
    /\ aliases' = {}
    /\ UNCHANGED <<file, storeMu, svcMu, pc, op, arg, ctx, saveVars, result,
                   storeCalls, assignedIDs, retiredIDs, deletedNoCreate,
                   status>>

\* ---------------------------------------------------------- HTTP handlers
\* validate:"required,max=100" on CreateRaskRequest.Title
MaxTitleLen == 100

\* validate:"required,oneof=low medium high" on CreateRaskRequest.Priority
Priorities == {"low", "medium", "high"}

\* A title of MaxTitleLen + 1 characters.
LongTitle ==
    "ttttttttttttttttttttttttttttttttttttttttttttttttttttttttttttttttttttttttttttttttttttttttttttttttttttt"

CreateRaskRequest(title, done, priority) ==
    [Title |-> title, Done |-> done, Priority |-> priority]

\* A request body: one json.Decode rejects, or one it decodes into v.
BadBody == [ok |-> FALSE, v |-> ZeroTask]
Body(v) == [ok |-> TRUE, v |-> v]

\* h.validator.Struct(req) on a CreateRaskRequest returns nil.
ValidCreate(req) ==
    /\ req.Title # ""
    /\ Len(req.Title) <= MaxTitleLen
    /\ req.Priority # ""
    /\ req.Priority \in Priorities

\* task := Task{Title: req.Title, Priority: req.Priority, Done: req.Done}
TaskOfRequest(req) == Task(0, req.Title, req.Done, req.Priority)

\* strconv.Atoi on the {id} path parameter.
Atoi(str) ==
    IF \E n \in 0..MaxInt : ToString(n) = str
    THEN [n |-> ParseInt(str), err |-> FALSE]
    ELSE [n |-> 0, err |-> TRUE]

CreateBodies ==
    {BadBody} \cup
    {Body(CreateRaskRequest(t, FALSE, pr)) :
        t \in {"", "a", LongTitle}, pr \in {"", "low", "urgent"}}

IdStrings == {"1", "2", "x"}

UpdateBodies ==
    {BadBody} \cup
    {Body(UpdateTaskRequest(t, NilBool, pr)) :
        t \in {NilStr, Ptr(""), Ptr(LongTitle)}, pr \in {NilStr, Ptr("urgent")}}

\* The handler answers 400 Bad Request and returns without calling the
\* Service.
Reject(p, o) ==
    /\ svcUp
    /\ pc[p] = "idle"
    /\ pc' = [pc EXCEPT ![p] = "rejected"]
    /\ op' = [op EXCEPT ![p] = o]
    /\ UNCHANGED <<file, storeMu, svcVars, svcMu, arg, ctx, saveVars, result,
                   storeCalls, histVars>>

\* The rejected request's goroutine ends.
Rejected(p) ==
    /\ pc[p] = "rejected"
    /\ pc' = [pc EXCEPT ![p] = "idle"]
    /\ op' = [op EXCEPT ![p] = None]
    /\ UNCHANGED <<file, storeMu, svcVars, svcMu, arg, ctx, saveVars, result,
                   storeCalls, histVars>>

\* What a handler has written when it returns: one of these statuses, or
\* nothing at all.
NoResponse == "no response"
StatusOK == "200"
StatusCreated == "201"
StatusNoContent == "204"
StatusNotFound == "404"
StatusRequestTimeout == "408"
StatusInternalServerError == "500"

\* Faulty variant: no case for context.DeadlineExceeded.
HandleContextErrorNoDeadline(err) ==
    CASE err = ErrCanceled -> [handled |-> TRUE, wrote |-> NoResponse]
      [] OTHER -> [handled |-> FALSE, wrote |-> NoResponse]

\* Handler.handleContextError: whether the error was a context error, and
\* what it wrote.
HandleContextError(err) ==
    CASE err = ErrCanceled -> [handled |-> TRUE, wrote |-> NoResponse]
      [] err = ErrDeadline -> [handled |-> TRUE, wrote |-> StatusRequestTimeout]
      [] OTHER -> [handled |-> FALSE, wrote |-> NoResponse]

\* What the handler of method o writes for the Service result r.
Response(o, r) ==
    IF r.err # ErrNil
    THEN IF HandleContextError(r.err).handled
         THEN HandleContextError(r.err).wrote
         ELSE StatusInternalServerError
    ELSE IF o \in {"get", "update", "delete"} /\ ~r.ok
    THEN StatusNotFound
    ELSE CASE o = "create" -> StatusCreated
           [] o = "delete" -> StatusNoContent
           [] OTHER -> StatusOK

\* The handler acts on what the Service method returned.
Respond(p) ==
    /\ pc[p] = "done"
    /\ op[p] \in {"list", "get", "create", "update", "delete"}
    /\ status[p] = Pending
    /\ status' = [status EXCEPT ![p] = Response(op[p], result[p])]
    /\ UNCHANGED <<file, storeMu, svcVars, svcMu, pc, op, arg, ctx, saveVars,
                   result, storeCalls, assignedIDs, retiredIDs, createdIDs,
                   deletedNoCreate, maxAtLoad>>

\* The handler returns after it has responded.
ReturnResponded(p) ==
    /\ status[p] # Pending
    /\ Return(p)

\* Handler.createTask: decode, validate, build the Task, call CreateTask.
HttpCreate(p, errs) ==
    \E b \in CreateBodies :
        IF ~b.ok \/ ~ValidCreate(b.v)
        THEN Reject(p, "create")
        ELSE /\ nextID + InFlightCreates <= MaxID
             /\ \E c \in {ErrNil} \cup errs :
                  Invoke(p, "create",
                         [NoArg EXCEPT !.incoming = TaskOfRequest(b.v)], c)

\* Handler.updateTask: Atoi on the id, decode, call UpdateTask (the
\* request's tags are not checked: the handler calls no validator).
HttpUpdate(p, errs) ==
    \E str \in IdStrings, b \in UpdateBodies :
        IF Atoi(str).err \/ ~b.ok
        THEN Reject(p, "update")
        ELSE \E c \in {ErrNil} \cup errs :
                Invoke(p, "update",
                       [NoArg EXCEPT !.id = Atoi(str).n, !.req = b.v], c)

\* ------------------------------------- NewService, step by step (startup)
\* main: store := NewTaskStore(...); svc, err := NewService(appCtx, store).
\* Goroutine p runs NewService; no Service exists until it returns one.
RetService(loaded) == RetList(loaded)

\* `loaded, err := store.LoadTasks(ctx)` has returned (loaded, e): on an
\* error NewService returns (nil, err), otherwise the Service built from
\* loaded and calcNextID(loaded).
LoadReturns(p, loaded, e) ==
    /\ pc' = [pc EXCEPT ![p] = "done"]
    /\ data' = [data EXCEPT ![p] = FileAbsent]
    /\ IF e # ErrNil
       THEN /\ result' = [result EXCEPT ![p] = RetErr(e)]
            /\ UNCHANGED <<svcVars, maxAtLoad>>
       ELSE /\ result' = [result EXCEPT ![p] = RetService(loaded)]
            /\ svcUp' = TRUE
            /\ tasks' = loaded
            /\ nextID' = calcNextID(loaded)
            /\ maxAtLoad' = MaxIDOf(loaded)
            /\ aliases' = {}

\* What every step of LoadTasks leaves alone.
LoadFrame ==
    UNCHANGED <<file, svcMu, op, arg, ctx, candidate, local, saveErr,
                assignedIDs, retiredIDs, createdIDs, deletedNoCreate, status>>

\* LoadTasks checkpoint 1: on entry.
LoadEntry(p) ==
    /\ pc[p] = "loadEntry"
    /\ storeCalls' = [storeCalls EXCEPT ![p] = @ + 1]
    /\ IF CtxCancelled(ctx[p])
       THEN LoadReturns(p, <<>>, ctx[p])
       ELSE /\ pc' = [pc EXCEPT ![p] = "loadLock"]
            /\ UNCHANGED <<svcVars, maxAtLoad, result, data>>
    /\ UNCHANGED storeMu
    /\ LoadFrame

\* ts.mu.RLock(), then checkpoint 2 (the deferred RUnlock runs on return).
LoadLock(p) ==
    /\ pc[p] = "loadLock"
    /\ storeMu.w = None
    /\ IF CtxCancelled(ctx[p])
       THEN /\ LoadReturns(p, <<>>, ctx[p])
            /\ UNCHANGED storeMu
       ELSE /\ storeMu' = [storeMu EXCEPT !.r = @ \cup {p}]
            /\ pc' = [pc EXCEPT ![p] = "loadRead"]
            /\ UNCHANGED <<svcVars, maxAtLoad, result, data>>
    /\ UNCHANGED storeCalls
    /\ LoadFrame

\* data, err := os.ReadFile(...): the file is missing (empty collection, no
\* error) or is read; then checkpoint 3.
LoadRead(p) ==
    /\ pc[p] = "loadRead"
    /\ IF file.kind = "absent"
       THEN /\ LoadReturns(p, <<>>, ErrNil)
            /\ storeMu' = [storeMu EXCEPT !.r = @ \ {p}]
       ELSE IF CtxCancelled(ctx[p])
       THEN /\ LoadReturns(p, <<>>, ctx[p])
            /\ storeMu' = [storeMu EXCEPT !.r = @ \ {p}]
       ELSE /\ data' = [data EXCEPT ![p] = file]
            /\ pc' = [pc EXCEPT ![p] = "loadParse"]
            /\ UNCHANGED <<svcVars, maxAtLoad, result, storeMu>>
    /\ UNCHANGED storeCalls
    /\ LoadFrame

\* os.ReadFile fails on an existing file, with an error other than "does
\* not exist" (permissions, an I/O error).
LoadReadFail(p) ==
    /\ pc[p] = "loadRead"
    /\ file.kind # "absent"
    /\ LoadReturns(p, <<>>, ErrIO)
    /\ storeMu' = [storeMu EXCEPT !.r = @ \ {p}]
    /\ UNCHANGED storeCalls
    /\ LoadFrame

\* Blank content: empty collection.  Otherwise json.Unmarshal: an error on
\* malformed content, else checkpoint 4 and the parsed collection.
LoadParse(p) ==
    /\ pc[p] = "loadParse"
    /\ IF data[p].kind = "json" /\ CtxCancelled(ctx[p])
       THEN LoadReturns(p, <<>>, ctx[p])
       ELSE LoadReturns(p, LoadTasks(data[p]).tasks, LoadTasks(data[p]).err)
    /\ storeMu' = [storeMu EXCEPT !.r = @ \ {p}]
    /\ UNCHANGED storeCalls
    /\ LoadFrame

\* ------------------------------------------------------------------- Next
\* One step of request goroutine p.
Step(p) ==
    \/ CallList(p, CtxErrs)
    \/ CallGet(p, CtxErrs)
    \/ CallCreate(p, CreateInputs, CtxErrs)
    \/ CallUpdate(p, UpdateInputs, CtxErrs)
    \/ CallDelete(p, CtxErrs)
    \/ Cancel(p, CtxErrs)
    \/ EntryCheck(p)
    \/ SlowEntry(p)
    \/ Sleep(p)
    \/ Check2(p)
    \/ RLock(p)
    \/ ListRead(p)
    \/ GetRead(p)
    \/ LockCreate(p)
    \/ LockUpdate(p)
    \/ LockDelete(p)
    \/ SaveEntry(p)
    \/ SaveLock(p)
    \/ SaveMarshal(p)
    \/ SaveWriteOK(p)
    \/ SaveWriteFail(p)
    \/ AfterSave(p)
    \/ Return(p)

\* One Service instance serving requests one at a time.
Next == \E p \in {"r1"} : Step(p)

Spec == Init /\ [][Next]_vars

\* The same, with the process stopped and started again between requests.
NextRestart == (\E p \in {"r1"} : Step(p)) \/ Restart

SpecRestart == Init /\ [][NextRestart]_vars

\* UpdateTask alone, over every shape of partial request.
UpdateStep(p) ==
    \/ CallUpdate(p, AllUpdateInputs, CtxErrs)
    \/ Cancel(p, CtxErrs)
    \/ EntryCheck(p)
    \/ LockUpdate(p)
    \/ SaveEntry(p)
    \/ SaveLock(p)
    \/ SaveMarshal(p)
    \/ SaveWriteOK(p)
    \/ SaveWriteFail(p)
    \/ AfterSave(p)
    \/ Return(p)

NextUpdate == \E p \in {"r1"} : UpdateStep(p)

SpecUpdate == Init /\ [][NextUpdate]_vars

\* Two request goroutines mutating one Service instance concurrently.
ConcStep(p) ==
    \/ CallCreate(p, {Task(0, "a", FALSE, "low")}, {ErrCanceled})
    \/ CallUpdate(p, {UpdateTaskRequest(NilStr, Ptr(TRUE), NilStr)}, {ErrCanceled})
    \/ CallDelete(p, {ErrCanceled})
    \/ Cancel(p, {ErrCanceled})
    \/ EntryCheck(p)
    \/ LockCreate(p)
    \/ LockUpdate(p)
    \/ LockDelete(p)
    \/ SaveEntry(p)
    \/ SaveLock(p)
    \/ SaveMarshal(p)
    \/ SaveWriteOK(p)
    \/ SaveWriteFail(p)
    \/ AfterSave(p)
    \/ Return(p)

NextConc == \E p \in Procs : ConcStep(p)

\* The service starts with no file.
InitConc == Init /\ file = FileAbsent

SpecConc == InitConc /\ [][NextConc]_vars

\* The process starting up on a file an earlier run left, then serving
\* CreateTask requests one at a time.
ScenarioCollection == <<Seed(1), Seed(2), Seed(5)>>

BootFiles == InitFiles \cup {MarshalIndent(ScenarioCollection)}

InitBoot ==
    /\ file \in BootFiles
    /\ storeMu = MuFree
    /\ svcUp = FALSE
    /\ tasks = <<>>
    /\ nextID = 0
    /\ svcMu = MuFree
    /\ pc = [p \in Procs |-> IF p = "r1" THEN "loadEntry" ELSE "idle"]
    /\ op = [p \in Procs |-> IF p = "r1" THEN "newservice" ELSE None]
    /\ arg = [p \in Procs |-> NoArg]
    /\ ctx \in {[p \in Procs |-> IF p = "r1" THEN c ELSE ErrNil] :
                  c \in {ErrNil} \cup CtxErrs}
    /\ candidate = [p \in Procs |-> <<>>]
    /\ local = [p \in Procs |-> ZeroTask]
    /\ data = [p \in Procs |-> FileAbsent]
    /\ saveErr = [p \in Procs |-> ErrNil]
    /\ result = [p \in Procs |-> NoResult]
    /\ storeCalls = [p \in Procs |-> 0]
    /\ assignedIDs = {}
    /\ retiredIDs = {}
    /\ createdIDs = {}
    /\ deletedNoCreate = {}
    /\ maxAtLoad = 0
    /\ aliases = {}
    /\ status = [p \in Procs |-> Pending]

\* CreateTask requests while the ID they would get still fits the file's
\* integers.
CallCreateAfterLoad(p) ==
    /\ nextID <= MaxInt
    /\ \E c \in {ErrNil} \cup CtxErrs :
         Invoke(p, "create", [NoArg EXCEPT !.incoming = Task(0, "a", FALSE, "low")], c)

BootStep(p) ==
    \/ LoadEntry(p)
    \/ LoadLock(p)
    \/ LoadRead(p)
    \/ LoadReadFail(p)
    \/ LoadParse(p)
    \/ CallCreateAfterLoad(p)
    \/ Cancel(p, CtxErrs)
    \/ EntryCheck(p)
    \/ LockCreate(p)
    \/ SaveEntry(p)
    \/ SaveLock(p)
    \/ SaveMarshal(p)
    \/ SaveWriteOK(p)
    \/ SaveWriteFail(p)
    \/ AfterSave(p)
    \/ Return(p)

NextBoot == \E p \in {"r1"} : BootStep(p)

SpecBoot == InitBoot /\ [][NextBoot]_vars

\* Create and update requests arriving over HTTP, one at a time, at a
\* service started on no file or on one valid record.
HttpStep(p) ==
    \/ HttpCreate(p, {ErrCanceled})
    \/ HttpUpdate(p, {ErrCanceled})
    \/ Rejected(p)
    \/ Cancel(p, {ErrCanceled})
    \/ EntryCheck(p)
    \/ LockCreate(p)
    \/ LockUpdate(p)
    \/ SaveEntry(p)
    \/ SaveLock(p)
    \/ SaveMarshal(p)
    \/ SaveWriteOK(p)
    \/ SaveWriteFail(p)
    \/ AfterSave(p)
    \/ Return(p)

NextHttp == \E p \in {"r1"} : HttpStep(p)

InitHttp ==
    /\ Init
    /\ file \in {FileAbsent, MarshalIndent(<<Task(1, "a", FALSE, "low")>>)}

SpecHttp == InitHttp /\ [][NextHttp]_vars

\* Two request goroutines reading and mutating one Service instance
\* concurrently, their contexts live throughout.
RWStep(p) ==
    \/ CallCreate(p, {Task(0, "a", FALSE, "low")}, {})
    \/ CallUpdate(p, {UpdateTaskRequest(NilStr, Ptr(TRUE), NilStr)}, {})
    \/ CallDelete(p, {})
    \/ Invoke(p, "list", NoArg, ErrNil)
    \/ \E id \in 1..MaxID : Invoke(p, "get", [NoArg EXCEPT !.id = id], ErrNil)
    \/ EntryCheck(p)
    \/ LockCreate(p)
    \/ LockUpdate(p)
    \/ LockDelete(p)
    \/ SaveEntry(p)
    \/ SaveLock(p)
    \/ SaveMarshal(p)
    \/ SaveWriteOK(p)
    \/ SaveWriteFail(p)
    \/ AfterSave(p)
    \/ Return(p)
    \/ Check2(p)
    \/ RLock(p)
    \/ ListRead(p)
    \/ GetRead(p)

NextRW == \E p \in Procs : RWStep(p)

SpecRW == InitConc /\ [][NextRW]_vars

\* ------------------------------------------------ the store on its own
\* Collections a caller hands to SaveTasks: any records in any order, the
\* empty collection included.
StoreTasks ==
    { Task(id, t, d, pr) : id \in 1..MaxID, t \in Titles, d \in BOOLEAN,
                           pr \in {"", "low"} }

StoreCollections ==
    UNION { [1..n -> StoreTasks] : n \in 0..MaxID }

\* A mutation holds the service lock and is about to call
\* s.store.SaveTasks(ctx, candidate).
InitStore ==
    /\ file \in {FileAbsent, FileMalformed}
    /\ storeMu = MuFree
    /\ svcUp = TRUE
    /\ tasks = <<>>
    /\ nextID = 1
    /\ svcMu = [w |-> "r1", r |-> {}]
    /\ pc = [p \in Procs |-> IF p = "r1" THEN "saveEntry" ELSE "idle"]
    /\ op = [p \in Procs |-> IF p = "r1" THEN "save" ELSE None]
    /\ arg = [p \in Procs |-> NoArg]
    /\ ctx = [p \in Procs |-> ErrNil]
    /\ candidate \in {[p \in Procs |-> IF p = "r1" THEN c ELSE <<>>] :
                        c \in StoreCollections}
    /\ local = [p \in Procs |-> ZeroTask]
    /\ data = [p \in Procs |-> FileAbsent]
    /\ saveErr = [p \in Procs |-> ErrNil]
    /\ result = [p \in Procs |-> NoResult]
    /\ storeCalls = [p \in Procs |-> 0]
    /\ assignedIDs = {}
    /\ retiredIDs = {}
    /\ createdIDs = {}
    /\ deletedNoCreate = {}
    /\ maxAtLoad = 0
    /\ aliases = {}
    /\ status = [p \in Procs |-> Pending]

\* The process ends after that SaveTasks call and is started again: main
\* calls NewService, which calls LoadTasks with the new run's context.
\* candidate and saveErr keep the argument and the result of the SaveTasks
\* call for comparison.
NextRun(p) ==
    /\ pc[p] = "saved"
    /\ pc' = [pc EXCEPT ![p] = "loadEntry"]
    /\ op' = [op EXCEPT ![p] = "newservice"]
    /\ \E c \in {ErrNil} \cup CtxErrs : ctx' = [ctx EXCEPT ![p] = c]
    /\ svcUp' = FALSE
    /\ tasks' = <<>>
    /\ nextID' = 0
    /\ aliases' = {}
    /\ svcMu' = MuFree
    /\ data' = [data EXCEPT ![p] = FileAbsent]
    /\ storeCalls' = [storeCalls EXCEPT ![p] = 0]
    /\ UNCHANGED <<file, storeMu, arg, candidate, local, saveErr, result,
                   histVars>>

StoreStep(p) ==
    \/ SaveEntry(p)
    \/ SaveLock(p)
    \/ SaveMarshal(p)
    \/ SaveWriteOK(p)
    \/ SaveWriteFail(p)
    \/ NextRun(p)
    \/ LoadEntry(p)
    \/ LoadLock(p)
    \/ LoadRead(p)
    \/ LoadReadFail(p)
    \/ LoadParse(p)
    \/ Cancel(p, CtxErrs)

NextStore == \E p \in {"r1"} : StoreStep(p)

\* One SaveTasks call, then the next run's LoadTasks.
SpecStore == InitStore /\ [][NextStore]_vars

\* ------------------------------------------- the caller of ListTasks
\* What the caller may put in place of entry i of the list it got: the
\* entry with another title, or a copy of another entry (a reordering).
CallerEntries(list, i) ==
    ({[list[i] EXCEPT !.title = "z"]} \cup {list[j] : j \in 1..Len(list)})
        \ {list[i]}

\* The caller writes an element of the slice ListTasks returned.  The write
\* reaches s.tasks exactly when the two slices share a backing array.
CallerEdits(p) ==
    /\ pc[p] = "done"
    /\ op[p] = "list"
    /\ result[p].err = ErrNil
    /\ \E i \in 1..Len(result[p].list) :
         \E t \in CallerEntries(result[p].list, i) :
            /\ result' = [result EXCEPT ![p].list[i] = t]
            /\ IF p \in aliases
               THEN tasks' = [tasks EXCEPT ![i] = t]
               ELSE UNCHANGED tasks
    /\ UNCHANGED <<file, storeMu, svcUp, nextID, aliases, svcMu, pc, op, arg,
                   ctx, saveVars, storeCalls, histVars>>

\* A goroutine that lists and then edits what it got.
ListerStep(p) ==
    \/ Invoke(p, "list", NoArg, ErrNil)
    \/ EntryCheck(p)
    \/ Check2(p)
    \/ RLock(p)
    \/ ListRead(p)
    \/ CallerEdits(p)
    \/ Return(p)

\* A goroutine that mutates the service.
MutatorStep(p) ==
    \/ CallCreate(p, {Task(0, "a", FALSE, "low")}, {})
    \/ CallUpdate(p, {UpdateTaskRequest(Ptr("b"), Ptr(TRUE), NilStr)}, {})
    \/ CallDelete(p, {})
    \/ EntryCheck(p)
    \/ LockCreate(p)
    \/ LockUpdate(p)
    \/ LockDelete(p)
    \/ SaveEntry(p)
    \/ SaveLock(p)
    \/ SaveMarshal(p)
    \/ SaveWriteOK(p)
    \/ SaveWriteFail(p)
    \/ AfterSave(p)
    \/ Return(p)

NextAlias == ListerStep("r1") \/ MutatorStep("r2")

\* One goroutine holding and editing lists while another mutates the service.
SpecAlias == InitConc /\ [][NextAlias]_vars

\* The client that got record u from a successful UpdateTask(id, ...) goes on
\* to call GetTask(id); local keeps u for comparison.
GetAfterUpdate(p) ==
    /\ pc[p] = "done"
    /\ op[p] = "update"
    /\ result[p].ok
    /\ result[p].err = ErrNil
    /\ pc' = [pc EXCEPT ![p] = "entry"]
    /\ op' = [op EXCEPT ![p] = "get"]
    /\ local' = [local EXCEPT ![p] = result[p].task]
    /\ result' = [result EXCEPT ![p] = NoResult]
    /\ storeCalls' = [storeCalls EXCEPT ![p] = 0]
    /\ \E c \in {ErrNil} \cup CtxErrs : ctx' = [ctx EXCEPT ![p] = c]
    /\ UNCHANGED <<file, storeMu, svcVars, svcMu, arg, candidate, data,
                   saveErr, histVars>>

\* ------------------------------------------- a whole run of the program
\* NewService on the file an earlier run left, then every mutation, and a
\* GetTask after an UpdateTask.
LifeStep(p) ==
    \/ LoadEntry(p)
    \/ LoadLock(p)
    \/ LoadRead(p)
    \/ LoadReadFail(p)
    \/ LoadParse(p)
    \/ CallCreate(p, {Task(0, "a", FALSE, "low")}, CtxErrs)
    \/ CallUpdate(p, {UpdateTaskRequest(Ptr("b"), Ptr(TRUE), NilStr)}, CtxErrs)
    \/ CallDelete(p, CtxErrs)
    \/ Cancel(p, CtxErrs)
    \/ EntryCheck(p)
    \/ LockCreate(p)
    \/ LockUpdate(p)
    \/ LockDelete(p)
    \/ SaveEntry(p)
    \/ SaveLock(p)
    \/ SaveMarshal(p)
    \/ SaveWriteOK(p)
    \/ SaveWriteFail(p)
    \/ AfterSave(p)
    \/ Return(p)
    \/ GetAfterUpdate(p)
    \/ RLock(p)
    \/ GetRead(p)

NextLife == \E p \in {"r1"} : LifeStep(p)

SpecLife == InitBoot /\ [][NextLife]_vars

\* ---------------------------------------------- the five handlers' replies
DispatchStep(p) ==
    \/ CallList(p, CtxErrs)
    \/ CallGet(p, CtxErrs)
    \/ CallCreate(p, {Task(0, "a", FALSE, "low")}, CtxErrs)
    \/ CallUpdate(p, {UpdateTaskRequest(Ptr("b"), Ptr(TRUE), NilStr)}, CtxErrs)
    \/ CallDelete(p, CtxErrs)
    \/ Cancel(p, CtxErrs)
    \/ EntryCheck(p)
    \/ SlowEntry(p)
    \/ Sleep(p)
    \/ Check2(p)
    \/ RLock(p)
    \/ ListRead(p)
    \/ GetRead(p)
    \/ LockCreate(p)
    \/ LockUpdate(p)
    \/ LockDelete(p)
    \/ SaveEntry(p)
    \/ SaveLock(p)
    \/ SaveMarshal(p)
    \/ SaveWriteOK(p)
    \/ SaveWriteFail(p)
    \/ AfterSave(p)
    \/ Respond(p)
    \/ ReturnResponded(p)

NextDispatch == \E p \in {"r1"} : DispatchStep(p)

\* One request at a time through the handlers, from a service with no file.
SpecDispatch == InitConc /\ [][NextDispatch]_vars

\* ------------------------------- runs in which a failed write is harmless
\* A whole run with two request goroutines, every failed write being one
\* that leaves the file as it was.
CleanStep(p) ==
    \/ LoadEntry(p)
    \/ LoadLock(p)
    \/ LoadRead(p)
    \/ LoadReadFail(p)
    \/ LoadParse(p)
    \/ CallCreate(p, {Task(0, "a", FALSE, "low")}, {ErrCanceled})
    \/ CallUpdate(p, {UpdateTaskRequest(Ptr("b"), Ptr(TRUE), NilStr)}, {ErrCanceled})
    \/ CallDelete(p, {ErrCanceled})
    \/ Cancel(p, {ErrCanceled})
    \/ EntryCheck(p)
    \/ LockCreate(p)
    \/ LockUpdate(p)
    \/ LockDelete(p)
    \/ SaveEntry(p)
    \/ SaveLock(p)
    \/ SaveMarshal(p)
    \/ SaveWriteOK(p)
    \/ SaveWriteFailClean(p)
    \/ AfterSave(p)
    \/ Return(p)

NextClean == \E p \in Procs : CleanStep(p)

SpecClean == InitBoot /\ [][NextClean]_vars

\* ----------------------------------------------- progress of the five methods
\* IDs the concurrent requests name: one that the first CreateTask assigns
\* and one that no record ever has.
LiveIDs == {1, MaxID + 1}

\* The steps goroutine p takes by itself once a method has been called: its
\* statements, and its lock acquisitions when the lock is available.
Run(p) ==
    \/ EntryCheck(p)
    \/ Check2(p)
    \/ RLock(p)
    \/ ListRead(p)
    \/ GetRead(p)
    \/ LockCreate(p)
    \/ LockUpdate(p)
    \/ LockDelete(p)
    \/ SaveEntry(p)
    \/ SaveLock(p)
    \/ SaveMarshal(p)
    \/ SaveWriteOK(p)
    \/ SaveWriteFail(p)
    \/ AfterSave(p)

LiveStep(p) ==
    \/ Invoke(p, "list", NoArg, ErrNil)
    \/ \E id \in LiveIDs : Invoke(p, "get", [NoArg EXCEPT !.id = id], ErrNil)
    \/ CallCreate(p, {Task(0, "a", FALSE, "low")}, {})
    \/ \E id \in LiveIDs :
         Invoke(p, "update",
                [NoArg EXCEPT !.id = id,
                              !.req = UpdateTaskRequest(NilStr, Ptr(TRUE), NilStr)],
                ErrNil)
    \/ \E id \in LiveIDs : Invoke(p, "delete", [NoArg EXCEPT !.id = id], ErrNil)
    \/ Cancel(p, {ErrCanceled})
    \/ Run(p)
    \/ Return(p)

NextLive == \E p \in Procs : LiveStep(p)

\* The scheduler runs every runnable goroutine, a goroutine waiting for a
\* sync.RWMutex gets it once it is free often enough, and every file write
\* returns.
FairLive == \A p \in Procs : SF_vars(Run(p))

\* Two goroutines calling the five methods, cancellable at any point.
SpecLive == InitConc /\ [][NextLive]_vars /\ FairLive

\* ------------------------------------------- a delayed ListTasks in company
\* A goroutine listing with a delay, cancellable at any point.
SlowListStep(p) ==
    \/ CallList(p, {})
    \/ Cancel(p, CtxErrs)
    \/ EntryCheck(p)
    \/ SlowEntry(p)
    \/ Sleep(p)
    \/ Check2(p)
    \/ RLock(p)
    \/ ListRead(p)
    \/ Return(p)

\* A goroutine creating, deleting and reading meanwhile.
CompanyStep(p) ==
    \/ CallCreate(p, {Task(0, "a", FALSE, "low")}, {})
    \/ Invoke(p, "delete", [NoArg EXCEPT !.id = 1], ErrNil)
    \/ Invoke(p, "get", [NoArg EXCEPT !.id = 1], ErrNil)
    \/ EntryCheck(p)
    \/ RLock(p)
    \/ GetRead(p)
    \/ LockCreate(p)
    \/ LockDelete(p)
    \/ SaveEntry(p)
    \/ SaveLock(p)
    \/ SaveMarshal(p)
    \/ SaveWriteOK(p)
    \/ SaveWriteFail(p)
    \/ AfterSave(p)
    \/ Return(p)

NextSlow == SlowListStep("r1") \/ CompanyStep("r2")

\* Every goroutine keeps running and gets the lock it waits for; the timer
\* of SimulateSlowIO fires, and a request's deadline passes while the
\* request is still running.
FairSlow ==
    /\ SF_vars(Run("r1") \/ SlowEntry("r1") \/ Sleep("r1"))
    /\ SF_vars(Run("r2"))
    /\ WF_vars(Cancel("r1", {ErrDeadline}))

SpecSlow == InitConc /\ [][NextSlow]_vars /\ FairSlow

\* ------------------------------------------------ the routes and Basic Auth
\* Credentials a request may carry: none, the admin pair, and pairs that
\* differ from it in the name, in the password, or in both.
Creds ==
    {NoCreds} \cup
    {BasicAuth(n, pw) : n \in {"admin", "user"}, pw \in {"secret", "guess"}}

StatusUnauthorized == "401"

\* Faulty variant: one matching half is enough (&& where || is meant).
AuthorizedEitherHalf(c) == c.ok /\ (c.name = "admin" \/ c.pass = "secret")

\* BasicAuthMiddleware lets the request through:
\* !(!ok || name != "admin" || pass != "secret").
Authorized(c) == c.ok /\ c.name = "admin" /\ c.pass = "secret"

\* BasicAuthMiddleware answers 401 and does not call next.
Unauthorized(p, c) ==
    /\ svcUp
    /\ pc[p] = "idle"
    /\ pc' = [pc EXCEPT ![p] = "unauthorized"]
    /\ op' = [op EXCEPT ![p] = "delete"]
    /\ arg' = [arg EXCEPT ![p] = [NoArg EXCEPT !.cred = c]]
    /\ status' = [status EXCEPT ![p] = StatusUnauthorized]
    /\ UNCHANGED <<file, storeMu, svcVars, svcMu, ctx, saveVars, result,
                   storeCalls, assignedIDs, retiredIDs, createdIDs,
                   deletedNoCreate, maxAtLoad>>

\* The refused request's goroutine ends.
UnauthorizedReturns(p) ==
    /\ pc[p] = "unauthorized"
    /\ pc' = [pc EXCEPT ![p] = "idle"]
    /\ op' = [op EXCEPT ![p] = None]
    /\ arg' = [arg EXCEPT ![p] = NoArg]
    /\ status' = [status EXCEPT ![p] = Pending]
    /\ UNCHANGED <<file, storeMu, svcVars, svcMu, ctx, saveVars, result,
                   storeCalls, assignedIDs, retiredIDs, createdIDs,
                   deletedNoCreate, maxAtLoad>>

\* Handler.deleteTask answers 400 to an id that is not a number; the request
\* got past BasicAuthMiddleware with the credentials c.
DeleteBadID(p, c) ==
    /\ svcUp
    /\ pc[p] = "idle"
    /\ pc' = [pc EXCEPT ![p] = "rejected"]
    /\ op' = [op EXCEPT ![p] = "delete"]
    /\ arg' = [arg EXCEPT ![p] = [NoArg EXCEPT !.cred = c]]
    /\ UNCHANGED <<file, storeMu, svcVars, svcMu, ctx, saveVars, result,
                   storeCalls, histVars>>

\* DELETE /{id}: BasicAuthMiddleware, then Handler.deleteTask (Atoi on the
\* id, then DeleteTask).
HttpDelete(p) ==
    \E c \in Creds, str \in IdStrings :
        IF ~Authorized(c)
        THEN Unauthorized(p, c)
        ELSE IF Atoi(str).err
        THEN DeleteBadID(p, c)
        ELSE Invoke(p, "delete",
                    [NoArg EXCEPT !.id = Atoi(str).n, !.cred = c], ErrNil)

\* GET /, GET /{id}, POST /, PUT /{id}: no BasicAuthMiddleware on the route,
\* whatever credentials the request carries.
HttpOpen(p) ==
    \E c \in Creds :
        \/ Invoke(p, "list", [NoArg EXCEPT !.cred = c], ErrNil)
        \/ \E str \in IdStrings :
             IF Atoi(str).err
             THEN Reject(p, "get")
             ELSE Invoke(p, "get", [NoArg EXCEPT !.id = Atoi(str).n, !.cred = c],
                         ErrNil)
        \/ /\ nextID + InFlightCreates <= MaxID
           /\ Invoke(p, "create",
                     [NoArg EXCEPT !.incoming = Task(0, "a", FALSE, "low"),
                                   !.cred = c], ErrNil)
        \/ \E str \in IdStrings :
             IF Atoi(str).err
             THEN Reject(p, "update")
             ELSE Invoke(p, "update",
                         [NoArg EXCEPT !.id = Atoi(str).n, !.cred = c,
                            !.req = UpdateTaskRequest(Ptr("b"), NilBool, NilStr)],
                         ErrNil)

AuthStep(p) ==
    \/ HttpDelete(p)
    \/ HttpOpen(p)
    \/ UnauthorizedReturns(p)
    \/ Rejected(p)
    \/ Run(p)
    \/ Return(p)

NextAuth == \E p \in {"r1"} : AuthStep(p)

\* Requests through the router, one at a time, on a store with no file.
SpecAuth == InitConc /\ [][NextAuth]_vars

\* ------------------------------------------------------ main: the shutdown
\* main's own goroutine.  pc[Main] is its position in main(), op[Main] the
\* select case it took, and ctx[Main] the state of appCtx.
Main == "main"

Goroutines == Procs \cup {Main}

\* main is waiting in its select: NewService(appCtx, store) has loaded a
\* store with no file, and the server is serving.
InitMain ==
    /\ file = FileAbsent
    /\ storeMu = MuFree
    /\ svcUp = NewServiceUp(file)
    /\ tasks = NewServiceTasks(file)
    /\ nextID = NewServiceNextID(file)
    /\ svcMu = MuFree
    /\ pc = [g \in Goroutines |-> IF g = Main THEN "select" ELSE "idle"]
    /\ op = [g \in Goroutines |-> None]
    /\ arg = [g \in Goroutines |-> NoArg]
    /\ ctx = [g \in Goroutines |-> ErrNil]
    /\ candidate = [g \in Goroutines |-> <<>>]
    /\ local = [g \in Goroutines |-> ZeroTask]
    /\ data = [g \in Goroutines |-> FileAbsent]
    /\ saveErr = [g \in Goroutines |-> ErrNil]
    /\ result = [g \in Goroutines |-> NoResult]
    /\ storeCalls = [g \in Goroutines |-> 0]
    /\ assignedIDs = {}
    /\ retiredIDs = {}
    /\ createdIDs = {}
    /\ deletedNoCreate = {}
    /\ maxAtLoad = MaxIDOf(NewServiceTasks(file))
    /\ aliases = {}
    /\ status = [g \in Goroutines |-> Pending]

\* The select in main takes one of its cases and main moves to position to.
SelectCase(case, to) ==
    /\ pc[Main] = "select"
    /\ pc' = [pc EXCEPT ![Main] = to]
    /\ op' = [op EXCEPT ![Main] = case]
    /\ UNCHANGED <<file, storeMu, svcVars, svcMu, arg, ctx, saveVars, result,
                   storeCalls, histVars>>

\* Faulty variant: after the signal main goes straight to srv.Shutdown.
SignalReceivedShutdownFirst == SelectCase("signal", "shutdown")

\* case <-sigCtx.Done(): falls out of the select to appCancel().
SignalReceived == SelectCase("signal", "appCancel")

\* case err := <-serverErrCh with err != nil: Serve failed.
ServerError == SelectCase("serverError", "appCancel")

\* case err := <-serverErrCh with err == nil: Serve returned
\* http.ErrServerClosed; main returns from inside the select.
ServerStopped == SelectCase("serverStopped", "return")

\* Cancelling appCtx cancels every context derived from it: the context of
\* every request in flight (http.Server.BaseContext returns appCtx).  A
\* context that already carries an error keeps it.
CancelTree ==
    [g \in Goroutines |->
        IF g = Main \/ (pc[g] # "idle" /\ ctx[g] = ErrNil)
        THEN ErrCanceled
        ELSE ctx[g]]

\* The explicit appCancel() after the select.
AppCancel ==
    /\ pc[Main] = "appCancel"
    /\ pc' = [pc EXCEPT ![Main] = "shutdown"]
    /\ ctx' = CancelTree
    /\ UNCHANGED <<file, storeMu, svcVars, svcMu, op, arg, saveVars, result,
                   storeCalls, histVars>>

\* srv.Shutdown(shutdownCtx) is called: the listeners close and it waits for
\* the requests in flight.
Shutdown ==
    /\ pc[Main] = "shutdown"
    /\ pc' = [pc EXCEPT ![Main] = "draining"]
    /\ UNCHANGED <<file, storeMu, svcVars, svcMu, op, arg, ctx, saveVars,
                   result, storeCalls, histVars>>

\* srv.Shutdown returns: nil once no request is in flight, or the error of
\* shutdownCtx after its 5 s, and then srv.Close().  Either way main goes on
\* to its last log line and returns.
ShutdownReturns ==
    /\ pc[Main] = "draining"
    /\ pc' = [pc EXCEPT ![Main] = "return"]
    /\ UNCHANGED <<file, storeMu, svcVars, svcMu, op, arg, ctx, saveVars,
                   result, storeCalls, histVars>>

\* main returns: its deferred calls run, among them the deferred appCancel().
DeferredCalls ==
    /\ pc[Main] = "return"
    /\ pc' = [pc EXCEPT ![Main] = "deferred"]
    /\ ctx' = CancelTree
    /\ UNCHANGED <<file, storeMu, svcVars, svcMu, op, arg, saveVars, result,
                   storeCalls, histVars>>

\* The process exits; no goroutine runs after it.
Exit ==
    /\ pc[Main] = "deferred"
    /\ pc' = [pc EXCEPT ![Main] = "exited"]
    /\ UNCHANGED <<file, storeMu, svcVars, svcMu, op, arg, ctx, saveVars,
                   result, storeCalls, histVars>>

\* The server takes new requests until srv.Shutdown closes the listeners or
\* main returns.
Accepting == pc[Main] \in {"select", "appCancel", "shutdown"}

\* A GET / arrives: its context is derived from appCtx as it is now.
ServeList(p) ==
    /\ Accepting
    /\ \E d \in Delays :
         Invoke(p, "list", [NoArg EXCEPT !.delay = d], ctx[Main])

\* A POST / arrives, likewise.
ServeCreate(p) ==
    /\ Accepting
    /\ nextID + InFlightCreates <= MaxID
    /\ Invoke(p, "create",
              [NoArg EXCEPT !.incoming = Task(0, "a", FALSE, "low")],
              ctx[Main])

\* What a request's goroutine does while the process is alive.
Handle(p) ==
    /\ pc[Main] # "exited"
    /\ Run(p) \/ SlowEntry(p) \/ Sleep(p)

\* The request timeout expires, or the handler returns.
RequestStep(p) ==
    /\ pc[Main] # "exited"
    /\ Cancel(p, {ErrDeadline}) \/ Return(p)

MainStep ==
    \/ SignalReceived
    \/ ServerError
    \/ ServerStopped
    \/ AppCancel
    \/ Shutdown
    \/ ShutdownReturns
    \/ DeferredCalls
    \/ Exit

\* One connection sends the list requests and the other the creates.
NextMain ==
    \/ MainStep
    \/ ServeList("r1")
    \/ ServeCreate("r2")
    \/ \E p \in Procs : Handle(p) \/ RequestStep(p)

\* A runnable request goroutine runs while the process lives.
FairMain == \A p \in Procs : SF_vars(Handle(p))

SpecMain == InitMain /\ [][NextMain]_vars /\ FairMain

\* =================================================================== claims
Mutating == {"create", "update", "delete"}

\* p's mutation leaves AfterSave with SaveTasks having returned nil.
Commits(p) ==
    /\ pc[p] = "saved"
    /\ saveErr[p] = ErrNil
    /\ pc'[p] = "done"

UniqueIDs(ts) ==
    \A i, j \in 1..Len(ts) : i # j => ts[i].id # ts[j].id

\* The position of the record with this ID in a collection that holds it.
PosOf(ts, id) == CHOOSE i \in 1..Len(ts) : ts[i].id = id

\* C1: when the SaveTasks call of CreateTask, UpdateTask or DeleteTask
\* returns an error (I/O or cancellation), the method returns that error and
\* tasks and nextID are what they were; tasks and nextID change only in the
\* step that follows a SaveTasks which returned nil, at which point the file
\* holds the candidate and the candidate becomes the collection.
C1_NoCommitOnSaveError ==
    [][ /\ \A p \in Procs :
            (pc[p] = "saved" /\ saveErr[p] # ErrNil /\ pc'[p] # "saved")
            => /\ tasks' = tasks
               /\ nextID' = nextID
               /\ pc'[p] = "done"
               /\ result'[p] = RetErr(saveErr[p])
        /\ (tasks' # tasks \/ nextID' # nextID)
            => \E p \in Procs :
                 /\ Commits(p)
                 /\ op[p] \in Mutating
                 /\ LoadTasks(file) = [tasks |-> candidate[p], err |-> ErrNil]
                 /\ tasks' = candidate[p]
      ]_vars

\* A CreateTask whose file write failed has returned the I/O error.
C1_Witness ==
    \E p \in Procs :
        /\ pc[p] = "done"
        /\ op[p] = "create"
        /\ result[p].err = ErrIO
        /\ storeCalls[p] = 1

\* C2: under every interleaving of two goroutines running CreateTask,
\* UpdateTask and DeleteTask on one Service, the collection's IDs stay
\* pairwise distinct and a successful CreateTask never returns an ID that an
\* earlier successful CreateTask of this Service returned.
C2_UniqueIDs ==
    [][ /\ UniqueIDs(tasks)
        /\ UniqueIDs(tasks')
        /\ \A p \in Procs :
            (Commits(p) /\ op[p] = "create")
            => /\ result'[p].task.id \notin createdIDs
               /\ result'[p].task.id \notin IDsOf(tasks)
      ]_vars

\* Both goroutines have returned from a successful CreateTask.
C2_Witness ==
    /\ \A p \in Procs :
        pc[p] = "done" /\ op[p] = "create" /\ result[p].ok
    /\ Cardinality(createdIDs) = 2

\* C3: an ID that CreateTask assigned and DeleteTask later removed is never
\* returned by a later CreateTask, also across restarts of the process.
C3_NoReuseAfterDelete ==
    \A p \in Procs :
        (pc[p] = "done" /\ op[p] = "create" /\ result[p].ok)
        => result[p].task.id \notin retiredIDs

\* C4: a successful CreateTask returns, appends and persists a record with
\* the ID nextID had at the call and the caller's title, done and priority.
C4_CreateKeepsFields ==
    \A p \in Procs :
        (pc[p] = "done" /\ op[p] = "create" /\ result[p].ok)
        => LET t == result[p].task
               want == Task(nextID - 1, arg[p].incoming.title,
                            arg[p].incoming.done, arg[p].incoming.priority)
           IN  /\ t = want
               /\ Len(tasks) > 0
               /\ tasks[Len(tasks)] = want
               /\ LoadTasks(file) = [tasks |-> tasks, err |-> ErrNil]

\* C5: a successful UpdateTask on an existing ID stores and returns a record
\* in which every field the request carries has the request's value and
\* every field it does not carry has the value it had before the call.
C5_MergePresentFields ==
    [][ \A p \in Procs :
          (Commits(p) /\ op[p] = "update")
          => LET i == PosOf(tasks, arg[p].id)
                 old == tasks[i]
                 new == tasks'[i]
                 r == arg[p].req
             IN  /\ result'[p].task = new
                 /\ result'[p].ok
                 /\ new.title = (IF r.Title.nil THEN old.title ELSE r.Title.v)
                 /\ new.done = (IF r.Done.nil THEN old.done ELSE r.Done.v)
                 /\ new.priority =
                        (IF r.Priority.nil THEN old.priority ELSE r.Priority.v)
      ]_vars

\* An update carrying only done = false has been applied to a record that
\* was done, and left its title and priority as an earlier update set them.
C5_Witness ==
    \E p \in Procs :
        /\ pc[p] = "done"
        /\ op[p] = "update"
        /\ result[p].ok
        /\ arg[p].req = UpdateTaskRequest(NilStr, Ptr(FALSE), NilStr)
        /\ result[p].task = Task(arg[p].id, "b", FALSE, "high")

\* C6: a successful UpdateTask(id, request) returns a record whose ID is the
\* lookup ID, and the collection holds the same IDs, each as often, as
\* before the call.
C6_UpdateKeepsIDs ==
    [][ \A p \in Procs :
          (Commits(p) /\ op[p] = "update")
          => /\ result'[p].task.id = arg[p].id
             /\ Len(tasks') = Len(tasks)
             /\ IDsOf(tasks') = IDsOf(tasks)
             /\ UniqueIDs(tasks')
      ]_vars

\* An update carrying title and priority has been applied to record 2 of a
\* two-record collection.
C6_Witness ==
    \E p \in Procs :
        /\ pc[p] = "done"
        /\ op[p] = "update"
        /\ result[p].ok
        /\ ~arg[p].req.Title.nil
        /\ arg[p].id = 2
        /\ result[p].task.id = 2
        /\ Len(tasks) = 2

\* C7: once DeleteTask(id) has succeeded and no CreateTask has run since,
\* GetTask(id) reports found = false and the file, when it loads, yields a
\* collection without that ID; right after the DeleteTask the file loads to
\* exactly the in-memory collection.
C7_DeletedStaysGone ==
    /\ \A id \in deletedNoCreate :
        /\ GetLookup(tasks, id) = RetNotFound
        /\ LoadTasks(file).err = ErrNil => id \notin IDsOf(LoadTasks(file).tasks)
    /\ \A p \in Procs :
        /\ (pc[p] = "done" /\ op[p] = "get" /\ result[p].err = ErrNil
              /\ arg[p].id \in deletedNoCreate)
           => result[p] = RetNotFound
        /\ (pc[p] = "done" /\ op[p] = "delete" /\ result[p].ok)
           => /\ LoadTasks(file) = [tasks |-> tasks, err |-> ErrNil]
              /\ arg[p].id \notin IDsOf(tasks)

\* A GetTask of a deleted ID has returned while the file is readable.
C7_Witness ==
    \E p \in Procs :
        /\ pc[p] = "done"
        /\ op[p] = "get"
        /\ result[p].err = ErrNil
        /\ arg[p].id \in deletedNoCreate
        /\ file.kind = "json"
        /\ Len(tasks) > 0

\* C8: the DeleteTask that removes an ID returns found = true; a further
\* DeleteTask of that ID, no CreateTask having run in between, returns
\* found = false and no error without calling SaveTasks and without
\* changing the collection, nextID or the file.
C8_DeleteTwice ==
    [][ \A p \in Procs :
          /\ (Commits(p) /\ op[p] = "delete") => result'[p] = RetDeleted
          /\ (pc[p] = "lock" /\ op[p] = "delete" /\ pc'[p] # "lock"
                /\ arg[p].id \in deletedNoCreate)
             => /\ pc'[p] = "done"
                /\ result'[p] = RetNotFound
                /\ storeCalls'[p] = 0
                /\ UNCHANGED <<tasks, nextID, file>>
      ]_vars

\* The second DeleteTask of an ID has returned found = false.
C8_Witness ==
    \E p \in Procs :
        /\ pc[p] = "done"
        /\ op[p] = "delete"
        /\ arg[p].id \in deletedNoCreate
        /\ result[p] = RetNotFound

\* C9: UpdateTask or DeleteTask that looks up an ID the collection does not
\* hold returns found = false and no error, calls no TaskStore method and
\* leaves the file, the collection and nextID unchanged.
C9_MissingIDNoEffect ==
    [][ \A p \in Procs :
          (pc[p] = "lock" /\ op[p] \in {"update", "delete"} /\ pc'[p] # "lock"
             /\ arg[p].id \notin IDsOf(tasks))
          => /\ pc'[p] = "done"
             /\ result'[p] = RetNotFound
             /\ storeCalls'[p] = 0
             /\ UNCHANGED <<tasks, nextID, file>>
      ]_vars

\* An UpdateTask of an ID that a non-empty collection does not hold has
\* returned.
C9_Witness ==
    \E p \in Procs :
        /\ pc[p] = "done"
        /\ op[p] = "update"
        /\ arg[p].id \notin IDsOf(tasks)
        /\ Len(tasks) > 0
        /\ result[p] = RetNotFound
        /\ storeCalls[p] = 0

\* C10: a Service method entered with its context already cancelled returns
\* the context's error, enters no TaskStore method and leaves the
\* collection, nextID and the file unchanged.
C10_CancelledBeforeStart ==
    [][ \A p \in Procs :
          (pc[p] = "entry" /\ ctx[p] # ErrNil /\ pc'[p] # "entry")
          => /\ pc'[p] = "done"
             /\ result'[p] = RetErr(ctx[p])
             /\ storeCalls'[p] = 0
             /\ UNCHANGED <<tasks, nextID, file>>
      ]_vars

\* A delayed ListTasks entered past its deadline has returned the deadline
\* error without entering SimulateSlowIO.
C10_Witness ==
    \E p \in Procs :
        /\ pc[p] = "done"
        /\ op[p] = "list"
        /\ arg[p].delay > 0
        /\ result[p] = RetErr(ErrDeadline)
        /\ storeCalls[p] = 0

\* C11: when NewService returns a Service, its collection is what LoadTasks
\* returned and nextID is the largest loaded ID plus one, 1 for an empty
\* collection (file absent or blank); loaded IDs 1, 2, 5 give nextID 6, and
\* the first CreateTask after the load returns that ID; when LoadTasks
\* fails NewService returns the error and no Service.
C11_NewServiceNextID ==
    [][ \A p \in Procs :
          /\ (op[p] = "newservice" /\ pc[p] # "done" /\ pc'[p] = "done")
             => IF result'[p].err = ErrNil
                THEN /\ svcUp'
                     /\ tasks' = result'[p].list
                     /\ nextID' = MaxIDOf(tasks') + 1
                     /\ (file.kind \in {"absent", "blank"}
                           => tasks' = <<>> /\ nextID' = 1)
                     /\ (IDsOf(tasks') = {1, 2, 5} => nextID' = 6)
                ELSE /\ ~svcUp'
                     /\ UNCHANGED <<tasks, nextID>>
          /\ (Commits(p) /\ op[p] = "create" /\ createdIDs = {})
             => /\ result'[p].task.id = maxAtLoad + 1
                /\ (IDsOf(tasks) = {1, 2, 5}
                      => /\ result'[p].task.id = 6
                         /\ IDsOf(tasks') = {1, 2, 5, 6})
      ]_vars

\* After loading IDs 1, 2, 5 the first CreateTask has returned ID 6.
C11_Witness ==
    \E p \in Procs :
        /\ pc[p] = "done"
        /\ op[p] = "create"
        /\ result[p].ok
        /\ result[p].task.id = 6
        /\ IDsOf(tasks) = {1, 2, 5, 6}
        /\ nextID = 7

\* C12 (as stated): after N successful CreateTask calls since the load,
\* nextID equals the largest ID at load time plus N.
C12_NextIDIsMaxPlusN ==
    svcUp => nextID = maxAtLoad + Cardinality(createdIDs)

\* C12 (amended): after N successful CreateTask calls since the load, and
\* any number of failed creates, updates and deletes, nextID equals the
\* largest ID at load time plus N plus one.
C12_NextIDIsMaxPlusNPlusOne ==
    svcUp => nextID = maxAtLoad + Cardinality(createdIDs) + 1

\* Two CreateTask calls have succeeded, a DeleteTask has removed a record
\* and an UpdateTask has failed in its write.
C12_Witness ==
    /\ Cardinality(createdIDs) = 2
    /\ deletedNoCreate # {}
    /\ \E p \in Procs :
         pc[p] = "done" /\ op[p] = "update" /\ result[p].err = ErrIO

\* What the spec's data model requires of a record.
ValidRecord(t) ==
    /\ t.title # ""
    /\ Len(t.title) <= MaxTitleLen
    /\ t.priority \in Priorities

\* The request a handler passed to the Service is one the claim calls a
\* validation error: on create a missing or over-long title or a priority
\* that is missing or outside the set; on update a present title that is
\* over-long or a present priority outside the set.
IsValidationError(o, a) ==
    \/ /\ o = "create"
       /\ \/ a.incoming.title = ""
          \/ Len(a.incoming.title) > MaxTitleLen
          \/ a.incoming.priority \notin Priorities
    \/ /\ o = "update"
       /\ \/ ~a.req.Title.nil /\ Len(a.req.Title.v) > MaxTitleLen
          \/ ~a.req.Priority.nil /\ a.req.Priority.v \notin Priorities

\* C13: every record of the collection, in every state the HTTP create and
\* update paths produce, has a non-empty title of at most 100 characters and
\* a priority among low, medium, high.
C13_RecordsValid ==
    \A i \in 1..Len(tasks) : ValidRecord(tasks[i])

\* C14: a create or update request that is a validation error is answered
\* 400 by the handler and never enters a Service method, so it changes
\* neither the collection, nextID nor the file.
C14_ValidationErrorRejected ==
    \A p \in Procs :
        (op[p] \in {"create", "update"} /\ IsValidationError(op[p], arg[p]))
        => pc[p] \in {"idle", "rejected"}

\* p holds the Service's exclusive lock: it is between building its
\* candidate and the commit (or the error return) that follows SaveTasks.
InMutation(p) ==
    pc[p] \in {"saveEntry", "saveLock", "saveMarshal", "saveWrite", "saved"}

\* C15: under every interleaving of two goroutines calling any of the five
\* methods, at most one mutation is between candidate and commit, and none
\* while a read holds the shared lock; a commit applies exactly its own
\* mutation to the collection as it stands, and nothing else changes the
\* collection; a ListTasks or GetTask reads while no mutation is between
\* candidate and commit (so never between persist and commit) and returns
\* the collection, or its entry, as it stands at that moment.
C15_ReadsSeeWholeMutations ==
    [][ /\ \A p, q \in Procs :
            (p # q /\ InMutation(p)) => ~InMutation(q) /\ pc[q] # "read"
        /\ \A p \in Procs :
            (Commits(p) /\ op[p] \in Mutating)
            => /\ \A q \in Procs : pc[q] # "read"
               /\ tasks' =
                    CASE op[p] = "create" -> Append(tasks, result'[p].task)
                      [] op[p] = "update" ->
                           [tasks EXCEPT ![PosOf(tasks, arg[p].id)] = result'[p].task]
                      [] OTHER ->
                           SelectSeq(tasks, LAMBDA t : t.id # arg[p].id)
        /\ tasks' # tasks
            => \E p \in Procs : Commits(p) /\ op[p] \in Mutating
        /\ \A p \in Procs :
            (pc[p] = "read" /\ pc'[p] = "done")
            => /\ \A q \in Procs : ~InMutation(q)
               /\ tasks' = tasks
               /\ op[p] = "list" => result'[p] = RetList(tasks)
               /\ op[p] = "get"
                    => result'[p] =
                         (IF arg[p].id \in IDsOf(tasks)
                          THEN RetTask(tasks[PosOf(tasks, arg[p].id)])
                          ELSE RetNotFound)
      ]_vars

\* A ListTasks waits for the shared lock while a CreateTask stands between
\* its successful write and its commit: the file holds the new record, the
\* collection does not yet.
C15_Witness ==
    \E p, q \in Procs :
        /\ pc[p] = "rlock"
        /\ op[p] = "list"
        /\ pc[q] = "saved"
        /\ op[q] = "create"
        /\ saveErr[q] = ErrNil
        /\ Len(LoadTasks(file).tasks) = Len(tasks) + 1

\* C16: when the context is cancelled after SaveTasks passed its last
\* checkpoint and the write succeeds (the file becomes the marshalled
\* candidate), SaveTasks returns nil; and a mutation whose SaveTasks returned
\* nil commits its candidate and returns success although its context is
\* cancelled by then, leaving the file and the collection equal.
C16_CancelAfterWriteCommits ==
    [][ \A p \in Procs :
          /\ (pc[p] = "saveWrite" /\ pc'[p] = "saved" /\ ctx[p] # ErrNil
                /\ file' = data[p] /\ file # data[p])
             => saveErr'[p] = ErrNil
          /\ (pc[p] = "saved" /\ saveErr[p] = ErrNil /\ ctx[p] # ErrNil
                /\ pc'[p] # "saved")
             => /\ pc'[p] = "done"
                /\ result'[p].err = ErrNil
                /\ result'[p].ok
                /\ tasks' = candidate[p]
                /\ LoadTasks(file') = [tasks |-> tasks', err |-> ErrNil]
                /\ op[p] = "create" => nextID' = nextID + 1
      ]_vars

\* A DeleteTask whose context was cancelled during the write has returned
\* found = true, and the file and the collection both lack the record.
C16_Witness ==
    \E p \in Procs :
        /\ pc[p] = "done"
        /\ op[p] = "delete"
        /\ ctx[p] = ErrCanceled
        /\ result[p] = RetDeleted
        /\ arg[p].id \notin IDsOf(tasks)
        /\ LoadTasks(file) = [tasks |-> tasks, err |-> ErrNil]

\* C17: SaveTasks, finding its context cancelled at a checkpoint (on
\* entry, after taking the exclusive lock, after marshalling), returns the
\* context's error with the file unwritten and its lock released; LoadTasks,
\* finding its context cancelled on entry or after taking the shared lock,
\* returns the context's error (and NewService, in turn, no Service).
C17_StoreCheckpoints ==
    [][ \A p \in Procs :
          /\ (pc[p] \in {"saveEntry", "saveLock", "saveMarshal"}
                /\ ctx[p] # ErrNil /\ pc'[p] # pc[p])
             => /\ pc'[p] = "saved"
                /\ saveErr'[p] = ctx[p]
                /\ file' = file
                /\ storeMu' = MuFree
          /\ (pc[p] \in {"loadEntry", "loadLock"}
                /\ ctx[p] # ErrNil /\ pc'[p] # pc[p])
             => /\ pc'[p] = "done"
                /\ result'[p] = RetErr(ctx[p])
                /\ file' = file
                /\ storeMu' = MuFree
                /\ ~svcUp'
      ]_vars

\* SaveTasks has returned the deadline error from its third checkpoint: the
\* candidate is marshalled and the file still holds the old collection.
C17_Witness ==
    \E p \in Procs :
        /\ pc[p] = "saved"
        /\ saveErr[p] = ErrDeadline
        /\ data[p] = MarshalIndent(candidate[p])
        /\ LoadTasks(file).tasks = tasks
        /\ file # data[p]

\* C18: a CreateTask, UpdateTask or DeleteTask whose context is cancelled
\* after its entry check and before it calls SaveTasks (while it waits for
\* s.mu, say) writes nothing and changes neither the collection nor nextID
\* on taking the lock; calling SaveTasks, it gets the context's error from
\* the entry checkpoint with the file untouched, and returns that error
\* with the collection and nextID as they were.  (UpdateTask or DeleteTask
\* of an ID the collection lacks never calls SaveTasks: it returns found =
\* false.)
C18_CancelBeforeSave ==
    [][ \A p \in Procs :
          /\ (pc[p] = "lock" /\ ctx[p] # ErrNil /\ pc'[p] # "lock")
             => /\ UNCHANGED <<tasks, nextID, file>>
                /\ \/ pc'[p] = "saveEntry"
                   \/ /\ op[p] \in {"update", "delete"}
                      /\ arg[p].id \notin IDsOf(tasks)
                      /\ result'[p] = RetNotFound
          /\ (pc[p] = "saveEntry" /\ ctx[p] # ErrNil /\ pc'[p] # "saveEntry")
             => /\ pc'[p] = "saved"
                /\ saveErr'[p] = ctx[p]
                /\ UNCHANGED <<tasks, nextID, file>>
          /\ (pc[p] = "saved" /\ saveErr[p] \in CtxErrs /\ pc'[p] # "saved")
             => /\ pc'[p] = "done"
                /\ result'[p] = RetErr(saveErr[p])
                /\ svcMu' = MuFree
                /\ UNCHANGED <<tasks, nextID, file>>
      ]_vars

\* A CreateTask that entered with a live context has returned the
\* cancellation error from its one SaveTasks call, while the other
\* goroutine's CreateTask has succeeded and its record is the only one in
\* the collection and in the file.
C18_Witness ==
    \E p, q \in Procs :
        /\ pc[p] = "done"
        /\ op[p] = "create"
        /\ result[p] = RetErr(ErrCanceled)
        /\ storeCalls[p] = 1
        /\ pc[q] = "done"
        /\ op[q] = "create"
        /\ result[q].ok
        /\ tasks = <<result[q].task>>
        /\ LoadTasks(file).tasks = tasks

\* C19: a ListTasks waiting in SimulateSlowIO whose context is done returns
\* the context's error without taking the shared lock or reading; a
\* ListTasks whose delay outlasts the request's deadline never returns a
\* list: it returns the context's error (deadline exceeded when the
\* deadline is what ended the context) from a point before the read; and no
\* step of a ListTasks changes the collection, nextID or the file.
C19_SlowListCancelled ==
    [][ \A p \in Procs :
          op[p] = "list"
          => /\ (pc[p] = "sleep" /\ ctx[p] # ErrNil /\ pc'[p] # "sleep")
                => /\ pc'[p] = "done"
                   /\ result'[p] = RetErr(ctx[p])
                   /\ svcMu' = svcMu
             /\ (pc[p] # "done" /\ pc'[p] = "done"
                   /\ arg[p].delay > RequestTimeout)
                => /\ ctx[p] # ErrNil
                   /\ result'[p] = RetErr(ctx[p])
                   /\ pc[p] \in {"entry", "slowEntry", "sleep"}
             /\ UNCHANGED <<tasks, nextID, file>>
      ]_vars

\* A ListTasks with a delay beyond the deadline, entered with a live
\* context, has returned the deadline error out of SimulateSlowIO while the
\* collection holds records.
C19_Witness ==
    \E p \in Procs :
        /\ pc[p] = "done"
        /\ op[p] = "list"
        /\ arg[p].delay > RequestTimeout
        /\ storeCalls[p] = 1
        /\ result[p] = RetErr(ErrDeadline)
        /\ Len(tasks) = 2

\* C20: LoadTasks, its context live, returns an empty collection and no
\* error when the file does not exist; when the file exists it returns the
\* read error if the read fails, and otherwise an empty collection and no
\* error for blank content, an error for malformed content, and for a JSON
\* array the collection that array encodes.
C20_LoadTasksCases ==
    [][ \A p \in Procs :
          (pc[p] \in {"loadRead", "loadParse"} /\ pc'[p] = "done"
             /\ ctx[p] = ErrNil)
          => CASE file.kind = "absent" ->
                    result'[p] = RetList(<<>>) /\ svcUp' /\ tasks' = <<>>
               [] result'[p].err = ErrIO ->
                    pc[p] = "loadRead" /\ result'[p] = RetErr(ErrIO) /\ ~svcUp'
               [] file.kind = "blank" ->
                    result'[p] = RetList(<<>>) /\ svcUp' /\ tasks' = <<>>
               [] file.kind = "malformed" ->
                    result'[p].err \notin {ErrNil} \cup CtxErrs /\ ~svcUp'
               [] OTHER ->
                    /\ result'[p].err = ErrNil
                    /\ MarshalIndent(result'[p].list) = file
                    /\ Len(result'[p].list) = Len(file.objs)
                    /\ tasks' = result'[p].list
                    /\ svcUp'
      ]_vars

\* LoadTasks has returned an empty collection for a blank file, and
\* NewService a Service with nextID 1.
C20_Witness ==
    \E p \in Procs :
        /\ pc[p] = "done"
        /\ op[p] = "newservice"
        /\ file.kind = "blank"
        /\ result[p] = RetList(<<>>)
        /\ svcUp
        /\ nextID = 1

\* C21: Save/Load round trip.  A LoadTasks that follows a successful
\* SaveTasks(c), with no Save in between and a context that is live when it
\* returns, gives back a collection equal to c in content and order (the
\* empty collection included); the only other outcome is a failed read of
\* the file.
C21_SaveLoadRoundTrip ==
    [][ \A p \in Procs :
          (pc[p] \in {"loadEntry", "loadLock", "loadRead", "loadParse"}
             /\ pc'[p] = "done" /\ saveErr[p] = ErrNil /\ ctx[p] = ErrNil)
          => \/ result'[p] = RetErr(ErrIO)
             \/ /\ result'[p] = RetList(candidate[p])
                /\ Len(result'[p].list) = Len(candidate[p])
                /\ \A i \in 1..Len(candidate[p]) :
                     result'[p].list[i] = candidate[p][i]
                /\ tasks' = candidate[p]
      ]_vars

\* A collection of two records that differ in every field, the second with
\* a priority, has been saved and loaded back.
C21_Witness ==
    \E p \in Procs :
        /\ pc[p] = "done"
        /\ op[p] = "newservice"
        /\ saveErr[p] = ErrNil
        /\ candidate[p] = <<Task(2, "b", TRUE, "low"), Task(1, "a", FALSE, "")>>
        /\ result[p] = RetList(candidate[p])

\* The empty collection has been saved over a malformed file and loaded
\* back as the empty collection.
C21_WitnessEmpty ==
    \E p \in Procs :
        /\ pc[p] = "done"
        /\ op[p] = "newservice"
        /\ saveErr[p] = ErrNil
        /\ candidate[p] = <<>>
        /\ file = MarshalIndent(<<>>)
        /\ result[p] = RetList(<<>>)

\* C22: a GetTask whose context is live at its entry check returns
\* (task, true, nil) with the stored record of that ID exactly when the
\* collection holds one, and (Task{}, false, nil) otherwise; no step of
\* GetTask changes the collection, nextID or the file.
C22_GetTask ==
    [][ \A p \in Procs :
          (op[p] = "get" /\ pc[p] # "idle")
          => /\ UNCHANGED <<tasks, nextID, file>>
             /\ (pc[p] = "entry" /\ ctx[p] = ErrNil) => pc'[p] # "done"
             /\ (pc[p] = "read" /\ pc'[p] = "done")
                => /\ result'[p].err = ErrNil
                   /\ result'[p].ok <=> (arg[p].id \in IDsOf(tasks))
                   /\ result'[p].ok
                      => \E i \in 1..Len(tasks) :
                           /\ tasks[i].id = arg[p].id
                           /\ result'[p].task = tasks[i]
                   /\ ~result'[p].ok => result'[p].task = ZeroTask
      ]_vars

\* GetTask has found the second of two records, the first one having been
\* updated since the start.
C22_Witness ==
    \E p \in Procs :
        /\ pc[p] = "done"
        /\ op[p] = "get"
        /\ Len(tasks) = 2
        /\ tasks[1] # Seed(tasks[1].id)
        /\ arg[p].id = tasks[2].id
        /\ result[p] = RetTask(tasks[2])

\* GetTask has reported an ID that is not in a non-empty collection as not
\* found.
C22_WitnessMissing ==
    \E p \in Procs :
        /\ pc[p] = "done"
        /\ op[p] = "get"
        /\ tasks # <<>>
        /\ arg[p].id \notin IDsOf(tasks)
        /\ result[p] = RetNotFound

\* C23: the list ListTasks returns is a copy.  A change the caller makes to
\* an entry of a returned list leaves s.tasks unchanged, and a change of
\* s.tasks leaves every list returned earlier unchanged.
C23_ListIsCopy ==
    [][ /\ (\E p \in Procs :
              /\ pc[p] = "done" /\ op[p] = "list" /\ pc'[p] = "done"
              /\ result'[p] # result[p])
           => UNCHANGED tasks
        /\ tasks' # tasks
           => \A p \in Procs :
                (pc[p] = "done" /\ op[p] = "list") => result'[p] = result[p]
      ]_vars

\* The caller has edited both entries of a list it got, the service has
\* then deleted a record, and the list and the collection differ in length
\* and in content.
C23_Witness ==
    \E p \in Procs :
        /\ pc[p] = "done"
        /\ op[p] = "list"
        /\ Len(result[p].list) = 2
        /\ result[p].list[1].title = "z"
        /\ result[p].list[2].title = "z"
        /\ Len(tasks) = 1
        /\ tasks[1].title # "z"
        /\ deletedNoCreate # {}

\* C24: an error SaveTasks returns to CreateTask, UpdateTask or DeleteTask
\* is what the method returns, with no record and found = false, and the
\* collection is not committed; an error LoadTasks returns is what
\* NewService returns, with no Service.
C24_StoreErrorsPropagate ==
    [][ \A p \in Procs :
          /\ (pc[p] = "saved" /\ pc'[p] = "done" /\ saveErr[p] # ErrNil)
             => /\ result'[p].err = saveErr[p]
                /\ ~result'[p].ok
                /\ result'[p].task = ZeroTask
                /\ UNCHANGED <<tasks, nextID>>
          /\ (op[p] = "newservice" /\ pc[p] # "done" /\ pc'[p] = "done")
             => /\ (pc[p] \in {"loadEntry", "loadLock"} /\ ctx[p] # ErrNil)
                   => result'[p].err = ctx[p]
                /\ (pc[p] = "loadParse" /\ data[p].kind = "malformed")
                   => result'[p].err = ErrParse
                /\ (pc[p] = "loadParse" /\ data[p].kind = "json"
                      /\ ctx[p] # ErrNil)
                   => result'[p].err = ctx[p]
                /\ result'[p].err # ErrNil
                   => /\ ~svcUp'
                      /\ result'[p].list = <<>>
                      /\ ~result'[p].ok
      ]_vars

\* An UpdateTask whose SaveTasks failed on the write has returned that
\* error, in a Service that NewService loaded from a file.
C24_Witness ==
    \E p \in Procs :
        /\ pc[p] = "done"
        /\ op[p] = "update"
        /\ result[p].err = ErrIO
        /\ ~result[p].ok
        /\ maxAtLoad > 0

\* C25: a successful UpdateTask(id, request) keeps the number and order of
\* entries, leaves every entry with another ID as it was, and puts the
\* updated record, the one it returns, at the position the entry had.
C25_UpdateFrame ==
    [][ \A p \in Procs :
          (Commits(p) /\ op[p] = "update")
          => /\ result'[p].ok /\ result'[p].err = ErrNil
             /\ Len(tasks') = Len(tasks)
             /\ \A i \in 1..Len(tasks) :
                  IF i = PosOf(tasks, arg[p].id)
                  THEN /\ tasks'[i] = result'[p].task
                       /\ tasks'[i].id = arg[p].id
                  ELSE tasks'[i] = tasks[i]
      ]_vars

\* The middle one of three records has been updated in place between its
\* untouched neighbours.
C25_Witness ==
    \E p \in Procs :
        /\ pc[p] = "done"
        /\ op[p] = "update"
        /\ result[p].ok
        /\ arg[p].id = 2
        /\ tasks = <<Seed(1), Task(2, "b", TRUE, ""), Seed(5)>>

\* C26: a successful DeleteTask(id) removes exactly one entry, the first
\* with that ID; the entries before it and after it are unchanged and keep
\* their order; no step of DeleteTask or UpdateTask changes nextID.
C26_DeleteFrame ==
    [][ \A p \in Procs :
          /\ (Commits(p) /\ op[p] = "delete")
             => /\ result'[p].ok /\ result'[p].err = ErrNil
                /\ Len(tasks') = Len(tasks) - 1
                /\ \E k \in 1..Len(tasks) :
                     /\ tasks[k].id = arg[p].id
                     /\ \A i \in 1..(k - 1) :
                          tasks[i].id # arg[p].id /\ tasks'[i] = tasks[i]
                     /\ \A i \in k..Len(tasks') : tasks'[i] = tasks[i + 1]
          /\ (op[p] \in {"update", "delete"} /\ pc[p] # "idle")
             => nextID' = nextID
      ]_vars

\* The first of three records has been deleted and the other two are left
\* in their order, with nextID still above the largest ID.
C26_Witness ==
    \E p \in Procs :
        /\ pc[p] = "done"
        /\ op[p] = "delete"
        /\ result[p] = RetDeleted
        /\ arg[p].id = 1
        /\ tasks = <<Seed(2), Seed(5)>>
        /\ nextID = 6

\* C27: round trip Update-then-Get.  When a successful UpdateTask(id, ...)
\* returned record u, the file it persisted loads without error to a
\* collection of the same length holding u at the entry's position, and a
\* GetTask(id) that follows with no mutation in between returns (u, true)
\* with no error.
C27_UpdateThenGet ==
    [][ \A p \in Procs :
          /\ (Commits(p) /\ op[p] = "update")
             => /\ LoadTasks(file').err = ErrNil
                /\ Len(LoadTasks(file').tasks) = Len(tasks)
                /\ LoadTasks(file').tasks[PosOf(tasks, arg[p].id)]
                     = result'[p].task
                /\ result'[p].ok
          /\ (op[p] = "get" /\ pc[p] = "read" /\ pc'[p] = "done"
                /\ local[p] # ZeroTask)
             => /\ result'[p] = RetTask(local[p])
                /\ result'[p].task.id = arg[p].id
      ]_vars

\* GetTask has returned the record an UpdateTask of the second of three
\* records returned just before, and the file holds it in second place.
C27_Witness ==
    \E p \in Procs :
        /\ pc[p] = "done"
        /\ op[p] = "get"
        /\ arg[p].id = 2
        /\ local[p] = Task(2, "b", TRUE, "")
        /\ result[p] = RetTask(local[p])
        /\ Len(tasks) = 3
        /\ LoadTasks(file).tasks[2] = local[p]

\* C28: for every handler, a Service error that is context.Canceled makes
\* the handler write nothing, context.DeadlineExceeded makes it write 408,
\* any other error 500; a result without error and found = false makes it
\* write 404, and 404 is never written for an error.
C28_DispatchClassifies ==
    [][ \A p \in Procs :
          (status[p] = Pending /\ status'[p] # Pending)
          => /\ CASE result[p].err = ErrCanceled -> status'[p] = NoResponse
                  [] result[p].err = ErrDeadline ->
                       status'[p] = StatusRequestTimeout
                  [] result[p].err # ErrNil ->
                       status'[p] = StatusInternalServerError
                  [] ~result[p].ok -> status'[p] = StatusNotFound
                  [] OTHER ->
                       status'[p] \in {StatusOK, StatusCreated, StatusNoContent}
             /\ status'[p] = StatusNotFound
                => result[p].err = ErrNil /\ op[p] \in {"get", "update", "delete"}
      ]_vars

\* The delete handler has answered a DeleteTask that hit its deadline with
\* status 408.
C28_Witness ==
    \E p \in Procs :
        /\ pc[p] = "done"
        /\ op[p] = "delete"
        /\ result[p].err = ErrDeadline
        /\ status[p] = StatusRequestTimeout

\* C29: whenever a Service exists and its lock is not held exclusively,
\* nextID is at least 1 and strictly greater than the ID of every record of
\* the in-memory collection.
C29_NextIDAboveAll ==
    (svcUp /\ svcMu.w = None)
    => /\ nextID >= 1
       /\ \A i \in 1..Len(tasks) : tasks[i].id < nextID

\* With the lock free after a delete, the collection loaded with IDs 1, 2, 5
\* holds 1 and 5 and nextID is still 6.
C29_Witness ==
    /\ svcUp
    /\ svcMu.w = None
    /\ IDsOf(tasks) = {1, 5}
    /\ nextID = 6
    /\ \E p \in Procs : pc[p] = "done" /\ op[p] = "delete" /\ result[p].ok

\* C30: when a failed write leaves the file as it was, in every state with
\* a Service and no mutation between SaveTasks' start and its commit the
\* file loads without error to the in-memory collection, same content and
\* same order.
C30_FileMatchesMemory ==
    (svcUp /\ \A p \in Procs : ~InMutation(p))
    => /\ LoadTasks(file).err = ErrNil
       /\ Len(LoadTasks(file).tasks) = Len(tasks)
       /\ \A i \in 1..Len(tasks) : LoadTasks(file).tasks[i] = tasks[i]

\* After a commit, a failed write and a cancelled mutation, the file still
\* loads to the two-record collection in memory.
C30_Witness ==
    /\ svcUp
    /\ \A p \in Procs : ~InMutation(p)
    /\ Len(tasks) = 2
    /\ LoadTasks(file).tasks = tasks
    /\ tasks[2].title = "b"
    /\ \E p, q \in Procs :
         /\ pc[p] = "done" /\ result[p].err = ErrIO
         /\ pc[q] = "done" /\ result[q].err = ErrCanceled /\ storeCalls[q] = 1

\* A goroutine holds none of the two locks.
HoldsNoLock(p) ==
    /\ svcMu.w # p
    /\ p \notin svcMu.r
    /\ storeMu.w # p
    /\ p \notin storeMu.r

\* C31: concurrent ListTasks, GetTask, CreateTask, UpdateTask and DeleteTask
\* calls never deadlock.  The storage lock is only ever taken by the holder
\* of the exclusive service lock, a method that has returned (success,
\* not-found, Save error or cancellation) holds no lock, and every method
\* that was called returns.
C31_NoDeadlock ==
    /\ [](\A p \in Procs :
            /\ (storeMu.w = p \/ pc[p] \in {"saveEntry", "saveLock"})
               => svcMu.w = p
            /\ storeMu.r = {}
            /\ pc[p] \in {"idle", "done"} => HoldsNoLock(p))
    /\ \A p \in Procs : (pc[p] # "idle") ~> (pc[p] = "done")

\* One goroutine waits for the service lock while the other holds it and
\* the storage lock in the middle of SaveTasks.
C31_Witness ==
    \E p, q \in Procs :
        /\ pc[p] = "lock"
        /\ svcMu.w = q
        /\ storeMu.w = q
        /\ pc[q] = "saveWrite"

\* C32: ListTasks holds no lock during its delay, so a mutation waiting for
\* the service lock can take it while the only other goroutine is a sleeping
\* ListTasks; a ListTasks that gets to its read returns the collection as it
\* is at that moment; and a ListTasks waiting out its delay always returns.
C32_SlowListHoldsNoLock ==
    /\ [](\A p \in Procs :
            pc[p] \in {"slowEntry", "sleep"}
            => /\ HoldsNoLock(p)
               /\ \A q \in Procs \ {p} :
                    (pc[q] = "lock" /\ op[q] = "create")
                    => ENABLED LockCreate(q))
    /\ [][ \A p \in Procs :
             (op[p] = "list" /\ pc[p] = "read" /\ pc'[p] = "done")
             => result'[p] = RetList(tasks) ]_vars
    /\ \A p \in Procs : (pc[p] = "sleep") ~> (pc[p] = "done")

\* While a ListTasks sleeps, a CreateTask is in the middle of its file
\* write, holding both locks.
C32_Witness ==
    \E p, q \in Procs :
        /\ pc[p] = "sleep"
        /\ ctx[p] = ErrNil
        /\ op[q] = "create"
        /\ pc[q] = "saveWrite"
        /\ svcMu.w = q

\* A ListTasks with a delay has returned a record while the CreateTask that
\* made it has not yet been answered.
C32_WitnessSeesCommit ==
    \E p, q \in Procs :
        /\ pc[p] = "done"
        /\ op[p] = "list"
        /\ arg[p].delay > 0
        /\ result[p] = RetList(tasks)
        /\ pc[q] = "done"
        /\ op[q] = "create"
        /\ result[q].ok
        /\ result[q].task = tasks[Len(tasks)]

\* C33: a DELETE request without credentials, or with credentials other than
\* admin/secret, is answered 401, never reaches the delete handler or
\* Service.DeleteTask, and leaves the collection, nextID and the file as they
\* were; a request to any other route is never answered 401 and gets to its
\* Service method with or without credentials.
C33_DeleteNeedsAdmin ==
    [][ \A p \in Procs :
          /\ (pc[p] = "idle" /\ pc'[p] # "idle" /\ op'[p] = "delete")
             => IF arg'[p].cred = BasicAuth("admin", "secret")
                THEN pc'[p] \in {"entry", "rejected"}
                ELSE /\ pc'[p] = "unauthorized"
                     /\ status'[p] = StatusUnauthorized
          /\ (op[p] = "delete" /\ arg[p].cred # BasicAuth("admin", "secret"))
             => /\ pc'[p] \in {"unauthorized", "idle"}
                /\ storeCalls'[p] = 0
                /\ UNCHANGED <<tasks, nextID, file>>
          /\ (pc[p] = "idle" /\ pc'[p] # "idle" /\ op'[p] # "delete")
             => /\ pc'[p] \in {"entry", "rejected"}
                /\ status'[p] # StatusUnauthorized
      ]_vars

\* A DELETE of an existing record with the right name and a wrong password
\* has been answered 401, and the record is still there.
C33_Witness ==
    \E p \in Procs :
        /\ pc[p] = "unauthorized"
        /\ arg[p].cred = BasicAuth("admin", "guess")
        /\ status[p] = StatusUnauthorized
        /\ Len(tasks) = 2
        /\ LoadTasks(file).tasks = tasks

\* A CreateTask called for a request without credentials has committed.
C33_WitnessOpen ==
    \E p \in Procs :
        /\ pc[p] = "done"
        /\ op[p] = "create"
        /\ arg[p].cred = NoCreds
        /\ result[p].ok
        /\ tasks # <<>>

\* The part of C34 about the signal and the fatal error: main is at or past
\* srv.Shutdown on these paths only with appCtx cancelled, appCtx is live
\* while main waits in its select, and once appCtx is cancelled the context
\* of every request in flight carries an error.
C34_CancelThenShutdown ==
    /\ pc[Main] = "select" => ctx[Main] = ErrNil
    /\ pc[Main] \in {"shutdown", "draining"} => ctx[Main] = ErrCanceled
    /\ op[Main] \in {"signal", "serverError"}
       => pc[Main] \in {"appCancel", "shutdown", "draining", "return",
                        "deferred", "exited"}
    /\ ctx[Main] = ErrCanceled
       => \A p \in Procs : pc[p] # "idle" => ctx[p] # ErrNil

\* A ListTasks that is in its delay when appCtx is cancelled leaves the delay
\* only by returning its context's error.
C34_SleeperStep ==
    \A p \in Procs :
        (op[p] = "list" /\ pc[p] = "sleep" /\ ctx[Main] = ErrCanceled
           /\ pc'[p] # "sleep")
        => /\ pc'[p] = "done"
           /\ ctx[p] # ErrNil
           /\ result'[p] = RetErr(ctx[p])

\* ... and it does return, unless the process exits first.
C34_SleeperReturns ==
    \A p \in Procs :
        (pc[p] = "sleep" /\ ctx[Main] = ErrCanceled)
        ~> (pc[p] = "done" \/ pc[Main] = "exited")

\* C34 as written: on a shutdown signal or a fatal server error the root
\* context is cancelled before srv.Shutdown starts, every request in flight
\* has its context cancelled and a ListTasks in its delay returns the
\* cancellation error; if the server stops without error the process exits
\* without cancelling the root context and without shutting down.
C34_AsWritten ==
    /\ [](C34_CancelThenShutdown
          /\ (op[Main] = "serverStopped"
              => /\ pc[Main] \in {"return", "deferred", "exited"}
                 /\ ctx[Main] = ErrNil))
    /\ [][C34_SleeperStep]_vars

\* C34 (amended): as above for the signal and the fatal error; if the server
\* stops without error main returns without the explicit appCancel() and
\* without srv.Shutdown, and the root context is cancelled only by the
\* deferred appCancel() as main returns, which still cancels the requests in
\* flight.
C34_Shutdown ==
    /\ [](C34_CancelThenShutdown
          /\ (op[Main] = "serverStopped"
              => /\ pc[Main] \in {"return", "deferred", "exited"}
                 /\ (ctx[Main] = ErrCanceled) <=> (pc[Main] # "return")))
    /\ [][C34_SleeperStep]_vars
    /\ C34_SleeperReturns

\* After a shutdown signal, with srv.Shutdown waiting, a ListTasks whose
\* delay is longer than the request timeout has returned the cancellation
\* error.
C34_Witness ==
    \E p \in Procs :
        /\ op[Main] = "signal"
        /\ pc[Main] = "draining"
        /\ op[p] = "list"
        /\ arg[p].delay > RequestTimeout
        /\ storeCalls[p] = 1
        /\ pc[p] = "done"
        /\ result[p] = RetErr(ErrCanceled)

\* The server stopped without error and main has returned: appCtx is
\* cancelled, and a request that was in flight has seen it.
C34_WitnessStopped ==
    \E p \in Procs :
        /\ op[Main] = "serverStopped"
        /\ pc[Main] = "exited"
        /\ ctx[Main] = ErrCanceled
        /\ pc[p] = "done"
        /\ result[p] = RetErr(ErrCanceled)

====
